---- MODULE Spec2Model ----
(***************************************************************************)
(* Verification model of the trading laboratory backend:                   *)
(*   - the event ring      (backend/app/services/agent_events.py)          *)
(*   - the paper trader    (backend/app/services/paper_trader.py)          *)
(*   - the agent loop      (backend/app/services/trading_agent.py)         *)
(*   - the advisor         (backend/app/services/agent_brain.py)           *)
(*   - the process         (backend/app/main_dev.py)                       *)
(*                                                                         *)
(* Several specifications share the module: SpecBus drives the event ring, *)
(* Spec one PaperTrader.run, SpecAgent the TradingAgent task with the HTTP *)
(* handlers that read and stop it, SpecSimulation one simulation of the    *)
(* agent with its trader, SpecProcess the supervisor and the start/stop    *)
(* endpoints, SpecEvents the events the agent issues, SpecBrain the        *)
(* advisor, SpecNoCredential the agent whose advisor has no credential,    *)
(* SpecFeed a trader run on a feed with invalid prices, SpecClock a run    *)
(* under a clock that is set back, SpecHold a run with slow price          *)
(* requests, SpecConfig the serialisation of configurations, SpecHistory   *)
(* the agent over cycles that search the version history, SpecLedger the   *)
(* capital of a trader in Decimal arithmetic, SpecListeners the ring with  *)
(* registered listeners.  Each specification leaves the variables of the   *)
(* other components unchanged.                                             *)
(***************************************************************************)
EXTENDS Integers, Sequences, FiniteSets, TLC

\* ------------------------------------------------------------------------
\* Bounds of the model (not program constants)
\* ------------------------------------------------------------------------

\* capacity the ring is constructed with (AgentEventEmitter(max_history=...))
MaxHistory == 3

\* number of emit calls explored
MaxEmits == 5

\* largest count passed to get_latest
MaxCount == 4

\* ------------------------------------------------------------------------
\* Generic helpers
\* ------------------------------------------------------------------------

Min(a, b) == IF a < b THEN a ELSE b

Max(a, b) == IF a > b THEN a ELSE b

Reverse(s) == [i \in 1..Len(s) |-> s[Len(s) - i + 1]]

\* Python's seq[start:] for any integer start (negative counts from the end)
PySliceFrom(s, start) ==
    LET n == Len(s)
        lo == IF start < 0 THEN Max(n + start, 0) ELSE Min(start, n)
    IN  SubSeq(s, lo + 1, n)

\* ------------------------------------------------------------------------
\* Event ring: state
\* ------------------------------------------------------------------------

VARIABLES
    events,        \* AgentEventEmitter.events, oldest first
    nextEventId,   \* number of the next event to be created
    emitted,       \* history: every event emitted since the last clear, in order
    busOp,         \* the ring operation that produced the current state
    latestCount,   \* argument of the last get_latest call
    latestResult   \* value returned by the last get_latest call

busVars == <<events, nextEventId, emitted, busOp, latestCount, latestResult>>

EventTypes == {"info", "state_changed"}

\* a full ring that refuses the new event instead of dropping its oldest one
EvictNewest(d, e, maxlen) ==
    IF Len(d) >= maxlen THEN d ELSE Append(d, e)

\* collections.deque(maxlen=...).append: a full deque drops its leftmost item
DequeAppend(d, e, maxlen) ==
    IF Len(d) >= maxlen THEN Append(Tail(d), e) ELSE Append(d, e)

BusInit ==
    /\ events = <<>>
    /\ nextEventId = 1
    /\ emitted = <<>>
    /\ busOp = "init"
    /\ latestCount = 0
    /\ latestResult = <<>>

\* AgentEventEmitter.emit (no listener registered)
Emit ==
    /\ nextEventId <= MaxEmits
    /\ \E t \in EventTypes :
         LET event == [id |-> nextEventId, type |-> t]
         IN  /\ events' = DequeAppend(events, event, MaxHistory)
             /\ emitted' = Append(emitted, event)
    /\ nextEventId' = nextEventId + 1
    /\ busOp' = "emit"
    /\ UNCHANGED <<latestCount, latestResult>>

\* AgentEventEmitter.clear
Clear ==
    /\ events' = <<>>
    /\ emitted' = <<>>
    /\ busOp' = "clear"
    /\ UNCHANGED <<nextEventId, latestCount, latestResult>>

\* get_latest slicing from the front of the ring: the oldest count events
LatestDropsNewest(evs, count) == Reverse(SubSeq(evs, 1, Min(count, Len(evs))))

\* the list get_latest(count) returns, newest first (ids stand for to_dict())
LatestOf(evs, count) == Reverse(PySliceFrom(evs, 0 - count))

\* AgentEventEmitter.get_latest
GetLatest ==
    /\ \E count \in 0..MaxCount :
         /\ latestCount' = count
         /\ latestResult' = LatestOf(events, count)
    /\ busOp' = "get_latest"
    /\ UNCHANGED <<events, nextEventId, emitted>>

NextBus == Emit \/ Clear \/ GetLatest

\* ------------------------------------------------------------------------
\* Paper trader: units, configurations, inputs
\* ------------------------------------------------------------------------
\* Prices are whole price points (one point = one cent).  Percentages of a
\* GraphConfig are held in hundredths of a percent (0.05 % = 5), weights in
\* tenths, scores in hundredths.  Money is held in 1/QtyScale of a cent and
\* quantities in 1/QtyScale of a coin, so that (exit - entry) * quantity is
\* exact; the one rounded operation is the Decimal division that yields the
\* quantity.  Stop and take-profit levels are held in 1/PctBase of a point.

\* ticks one run may execute (duration_seconds / tick_interval)
MaxTicks == 6

\* 100 % in hundredths of a percent
PctBase == 10000

\* quantity and money resolution
QtyScale == 100

\* drawdown resolution: 1/DdScale of a percent
DdScale == 10

\* 1 / (0.0001 dollar) in price points: the avg_loss stand-in of the RSI
EpsInv == 100

\* price_history keeps the last HistoryCap ticks
HistoryCap == 100

\* an unset Optional[datetime]
NoTime == 0 - 1

\* bids the public price endpoint may deliver, in points
Prices == {96, 100, 101, 106}

\* PaperTrader(initial_capital=100.0): 10000 cents
InitialCapital == 10000 * QtyScale

GRAPH_SCALPING ==
    [ strategy_type |-> "scalping",
      rsi_oversold |-> 45, rsi_overbought |-> 55, rsi_period |-> 5,
      ema_fast_period |-> 2, ema_slow_period |-> 5,
      macd_fast |-> 12, macd_slow |-> 26,
      bb_period |-> 20, bb_std_dev |-> 2,
      price_change_threshold |-> 3, momentum_period |-> 2,
      micro_profit_target |-> 8, micro_stop_loss |-> 5, tick_scalp_threshold |-> 2,
      position_size_pct |-> 20, stop_loss_pct |-> 20, take_profit_pct |-> 30,
      trailing_stop_pct |-> 10,
      min_time_between_trades |-> 1, cooldown_after_loss |-> 5,
      max_position_duration |-> 30,
      weight_rsi |-> 10, weight_ema |-> 10, weight_macd |-> 5, weight_bb |-> 10,
      weight_momentum |-> 15, weight_price_action |-> 15,
      min_buy_score |-> 50, min_sell_score |-> 50 ]

GRAPH_V1 ==
    [ strategy_type |-> "conservative",
      rsi_oversold |-> 30, rsi_overbought |-> 70, rsi_period |-> 14,
      ema_fast_period |-> 5, ema_slow_period |-> 12,
      macd_fast |-> 12, macd_slow |-> 26,
      bb_period |-> 20, bb_std_dev |-> 2,
      price_change_threshold |-> 30, momentum_period |-> 6,
      micro_profit_target |-> 15, micro_stop_loss |-> 10, tick_scalp_threshold |-> 5,
      position_size_pct |-> 10, stop_loss_pct |-> 200, take_profit_pct |-> 400,
      trailing_stop_pct |-> 100,
      min_time_between_trades |-> 30, cooldown_after_loss |-> 60,
      max_position_duration |-> 300,
      weight_rsi |-> 10, weight_ema |-> 10, weight_macd |-> 10, weight_bb |-> 10,
      weight_momentum |-> 10, weight_price_action |-> 10,
      min_buy_score |-> 300, min_sell_score |-> 300 ]

\* the field defaults of the GraphConfig dataclass
GraphConfigDefaults ==
    [ strategy_type |-> "conservative",
      rsi_oversold |-> 30, rsi_overbought |-> 70, rsi_period |-> 14,
      ema_fast_period |-> 5, ema_slow_period |-> 12,
      macd_fast |-> 12, macd_slow |-> 26,
      bb_period |-> 20, bb_std_dev |-> 2,
      price_change_threshold |-> 50, momentum_period |-> 6,
      micro_profit_target |-> 15, micro_stop_loss |-> 10, tick_scalp_threshold |-> 5,
      position_size_pct |-> 10, stop_loss_pct |-> 200, take_profit_pct |-> 500,
      trailing_stop_pct |-> 150,
      min_time_between_trades |-> 60, cooldown_after_loss |-> 120,
      max_position_duration |-> 300,
      weight_rsi |-> 10, weight_ema |-> 10, weight_macd |-> 10, weight_bb |-> 10,
      weight_momentum |-> 10, weight_price_action |-> 10,
      min_buy_score |-> 250, min_sell_score |-> 250 ]

\* GraphConfig(**d): the keys of the dict, the dataclass defaults for the rest
GraphConfigFromKeywords(d) ==
    [f \in DOMAIN GraphConfigDefaults |->
        IF f \in DOMAIN d THEN d[f] ELSE GraphConfigDefaults[f]]

\* d.get(key, default) on a dict d
DictGet(d, key, default) == IF key \in DOMAIN d THEN d[key] ELSE default

\* the GraphConfig that _adjust_config_for_score builds from a dict
GraphConfigFromDict(d) ==
    [ GraphConfigDefaults EXCEPT
        !.strategy_type = DictGet(d, "strategy_type", "conservative"),
        !.rsi_oversold = DictGet(d, "rsi_oversold", 30),
        !.rsi_overbought = DictGet(d, "rsi_overbought", 70),
        !.stop_loss_pct = DictGet(d, "stop_loss_pct", 200),
        !.take_profit_pct = DictGet(d, "take_profit_pct", 150),
        !.micro_profit_target = DictGet(d, "micro_profit_target", 30),
        !.micro_stop_loss = DictGet(d, "micro_stop_loss", 50),
        !.min_time_between_trades = DictGet(d, "min_time_between_trades", 30),
        !.position_size_pct = DictGet(d, "position_size_pct", 10) ]

\* a key the advisor's "optimized_parameters" object does not carry
Absent == 0 - 1

\* "optimized_parameters" without any key
NoSuggestions ==
    [ rsi_oversold |-> Absent, rsi_overbought |-> Absent, stop_loss_pct |-> Absent,
      take_profit_pct |-> Absent, micro_profit_target |-> Absent,
      micro_stop_loss |-> Absent, min_time_between_trades |-> Absent,
      position_size_pct |-> Absent, min_buy_score |-> Absent, min_sell_score |-> Absent ]

\* dict.get(key, default)
GetOr(value, default) == IF value = Absent THEN default ELSE value

\* TradingAgent._apply_suggestions: a GraphConfig built from the suggestions,
\* the base configuration for the keys they lack, and the dataclass defaults
\* for every other field
_apply_suggestions(base, suggestions) ==
    [ GraphConfigDefaults EXCEPT
        !.strategy_type = "scalping",
        !.rsi_oversold = GetOr(suggestions.rsi_oversold, base.rsi_oversold),
        !.rsi_overbought = GetOr(suggestions.rsi_overbought, base.rsi_overbought),
        !.stop_loss_pct = GetOr(suggestions.stop_loss_pct, base.stop_loss_pct),
        !.take_profit_pct = GetOr(suggestions.take_profit_pct, base.take_profit_pct),
        !.micro_profit_target =
            GetOr(suggestions.micro_profit_target,
                  GetOr(suggestions.take_profit_pct, base.micro_profit_target)),
        !.micro_stop_loss =
            GetOr(suggestions.micro_stop_loss,
                  GetOr(suggestions.stop_loss_pct, base.micro_stop_loss)),
        !.min_time_between_trades =
            GetOr(suggestions.min_time_between_trades, base.min_time_between_trades),
        !.position_size_pct = GetOr(suggestions.position_size_pct, base.position_size_pct),
        !.min_buy_score = GetOr(suggestions.min_buy_score, base.min_buy_score),
        !.min_sell_score = GetOr(suggestions.min_sell_score, base.min_sell_score) ]

\* the config column of a stored version that holds no configuration
\* (db_v.config or {}): a plain dict, not a GraphConfig
EmptyDictConfig == [is_dict |-> TRUE]

IsDict(config) == "is_dict" \in DOMAIN config

\* the GraphConfig that _adjust_config_for_score builds from an empty dict
GraphConfigFromEmptyDict ==
    [ GraphConfigDefaults EXCEPT
        !.strategy_type = "conservative",
        !.rsi_oversold = 30, !.rsi_overbought = 70,
        !.stop_loss_pct = 200, !.take_profit_pct = 150,
        !.micro_profit_target = 30, !.micro_stop_loss = 50,
        !.min_time_between_trades = 30, !.position_size_pct = 10 ]

\* the position size _adjust_config_for_score picks for a score (in percent)
PositionSizeForScore(score) ==
    IF score >= 80 THEN 20
    ELSE IF score >= 70 THEN 15
    ELSE IF score >= 60 THEN 10
    ELSE 5

\* TradingAgent._adjust_config_for_score for a current version with this
\* config and score: ten fields of the version's configuration, the position
\* size chosen from the score, the dataclass defaults for every other field
_adjust_config_for_score(config, score) ==
    LET c == IF IsDict(config) THEN GraphConfigFromEmptyDict ELSE config
    IN  [ GraphConfigDefaults EXCEPT
            !.strategy_type = c.strategy_type,
            !.rsi_oversold = c.rsi_oversold,
            !.rsi_overbought = c.rsi_overbought,
            !.stop_loss_pct = c.stop_loss_pct,
            !.take_profit_pct = c.take_profit_pct,
            !.micro_profit_target = c.micro_profit_target,
            !.micro_stop_loss = c.micro_stop_loss,
            !.min_time_between_trades = c.min_time_between_trades,
            !.position_size_pct = PositionSizeForScore(score) ]

\* the (graph_config, tick_interval) pairs the callers of PaperTrader.run use:
\* the scalping and V1 presets (simulation endpoints, 2 s and 5 s per tick)
\* and the agent's first simulation (initial version, score 0, 2 s per tick)
Runs ==
    { [config |-> GRAPH_SCALPING, tick_interval |-> 2],
      [config |-> GRAPH_V1, tick_interval |-> 5],
      [config |-> _adjust_config_for_score(GRAPH_SCALPING, 0), tick_interval |-> 2] }

\* ------------------------------------------------------------------------
\* Indicator kernel (PaperTrader._calculate_indicators), exact arithmetic
\* ------------------------------------------------------------------------

RECURSIVE SumSeq(_)
SumSeq(s) == IF s = <<>> THEN 0 ELSE Head(s) + SumSeq(Tail(s))

Abs(x) == IF x < 0 THEN 0 - x ELSE x

\* a * k < x  for k > 0, without forming a * k
LtTimes(a, k, x) == a <= ((x - 1) \div k)

\* a * k > x  for k > 0, without forming a * k
GtTimes(a, k, x) == a > (x \div k)

\* prices[i] - prices[i-1] for the last n differences
Changes(prices, n) ==
    [j \in 1..n |-> prices[Len(prices) - n + j] - prices[Len(prices) - n + j - 1]]

\* rsi as the fraction num / den
Rsi(prices, cfg) ==
    LET rsi_period == Min(cfg.rsi_period, Len(prices) - 1)
        changes == Changes(prices, rsi_period)
        gain == SumSeq([j \in 1..rsi_period |-> IF changes[j] > 0 THEN changes[j] ELSE 0])
        loss == SumSeq([j \in 1..rsi_period |-> IF changes[j] < 0 THEN 0 - changes[j] ELSE 0])
    IN  IF Len(prices) >= rsi_period + 1
        THEN IF loss > 0
             THEN [num |-> 100 * gain, den |-> gain + loss]
             ELSE [num |-> 100 * gain * EpsInv, den |-> gain * EpsInv + rsi_period]
        ELSE [num |-> 50, den |-> 1]

RECURSIVE EmaFold(_, _, _, _)
EmaFold(data, period, idx, ema) ==
    IF idx > Len(data) THEN ema
    ELSE EmaFold(data, period, idx + 1,
                 [num |-> data[idx] * 2 * ema.den + ema.num * (period - 1),
                  den |-> ema.den * (period + 1)])

\* calculate_ema as the fraction num / den
calculate_ema(data, period) ==
    IF Len(data) < period
    THEN IF data = <<>> THEN [num |-> 0, den |-> 1]
         ELSE [num |-> SumSeq(data), den |-> Len(data)]
    ELSE EmaFold(data, period, period + 1,
                 [num |-> SumSeq(SubSeq(data, 1, period)), den |-> period])

\* sign of fraction a minus fraction b (positive denominators)
FracCmp(a, b) ==
    LET l == a.num * b.den
        r == b.num * a.den
    IN  IF l > r THEN 1 ELSE IF l < r THEN 0 - 1 ELSE 0

AllButLast(s) == SubSeq(s, 1, Len(s) - 1)

\* 0 stands for a key the dictionary does not hold (indicators.get(key, 0))
EmaCrossSignal(prices, cfg) ==
    IF Len(prices) >= Max(cfg.ema_fast_period, cfg.ema_slow_period) + 2
    THEN LET f == calculate_ema(prices, cfg.ema_fast_period)
             s == calculate_ema(prices, cfg.ema_slow_period)
             pf == calculate_ema(AllButLast(prices), cfg.ema_fast_period)
             ps == calculate_ema(AllButLast(prices), cfg.ema_slow_period)
         IN  IF FracCmp(pf, ps) <= 0 /\ FracCmp(f, s) > 0 THEN 1
             ELSE IF FracCmp(pf, ps) >= 0 /\ FracCmp(f, s) < 0 THEN 0 - 1
             ELSE 0
    ELSE 0

\* (ema_fast - ema_slow) / ema_slow as the fraction num / den
EmaDiff(prices, cfg) ==
    LET f == calculate_ema(prices, cfg.ema_fast_period)
        s == calculate_ema(prices, cfg.ema_slow_period)
    IN  IF s.num # 0
        THEN [num |-> f.num * s.den - s.num * f.den, den |-> s.num * f.den]
        ELSE [num |-> 0, den |-> 1]

MacdSignal(prices, cfg) ==
    IF Len(prices) >= cfg.macd_slow
    THEN IF FracCmp(calculate_ema(prices, cfg.macd_fast),
                    calculate_ema(prices, cfg.macd_slow)) > 0
         THEN 1 ELSE 0 - 1
    ELSE 0

\* Bollinger bands over the last n prices: dev = n * (last - sma),
\* spread2 = (n * bb_std_dev * stddev)^2, so that
\* bb_position = dev / sqrt(spread2) and the bands are sma -+ sqrt(spread2) / n
Bollinger(prices, cfg) ==
    LET n == Min(cfg.bb_period, Len(prices))
        bb_prices == SubSeq(prices, Len(prices) - n + 1, Len(prices))
        total == SumSeq(bb_prices)
        squares == SumSeq([j \in 1..n |-> bb_prices[j] * bb_prices[j]])
        last == prices[Len(prices)]
        dev == n * last - total
        spread2 == cfg.bb_std_dev * cfg.bb_std_dev * (n * squares - total * total)
    IN  IF n >= 5
        THEN [present |-> TRUE,
              bb_touch_lower |-> IF dev <= 0 /\ dev * dev >= spread2 THEN 1 ELSE 0,
              bb_touch_upper |-> IF dev >= 0 /\ dev * dev >= spread2 THEN 1 ELSE 0,
              \* bb_position < -0.5, bb_position > 0.5 (0 when the bands coincide)
              below_half |-> spread2 # 0 /\ dev < 0 /\ 4 * dev * dev > spread2,
              above_half |-> spread2 # 0 /\ dev > 0 /\ 4 * dev * dev > spread2]
        ELSE [present |-> FALSE, bb_touch_lower |-> 0, bb_touch_upper |-> 0,
              below_half |-> FALSE, above_half |-> FALSE]

\* momentum as the fraction num / den (times 100 in the source)
Momentum(prices, cfg) ==
    LET mom_period == Min(cfg.momentum_period, Len(prices) - 1)
        ref == prices[Len(prices) - mom_period]
    IN  IF mom_period >= 1
        THEN [num |-> prices[Len(prices)] - ref, den |-> ref]
        ELSE [num |-> 0, den |-> 1]

\* linear-regression slope over the last 10 prices against the 0.01 % dead zone:
\* trend_slope = 20 * w / (33 * total) percent, w = sum (2i - 9)(10 p_i - total)
TrendDirection(prices) ==
    IF Len(prices) >= 10
    THEN LET last10 == SubSeq(prices, Len(prices) - 9, Len(prices))
             total == SumSeq(last10)
             w == SumSeq([j \in 1..10 |-> (2 * (j - 1) - 9) * (10 * last10[j] - total)])
         IN  IF GtTimes(w, 2000, 33 * total) THEN 1
             ELSE IF LtTimes(w, 2000, 0 - 33 * total) THEN 0 - 1
             ELSE 0
    ELSE 0

_calculate_indicators(prices, cfg) ==
    IF Len(prices) < 2
    THEN [empty |-> TRUE]
    ELSE LET n == Len(prices)
             last == prices[n]
             prev == prices[n - 1]
         IN  [empty |-> FALSE,
              rsi |-> Rsi(prices, cfg),
              ema_diff |-> EmaDiff(prices, cfg),
              ema_cross_signal |-> EmaCrossSignal(prices, cfg),
              macd_signal |-> MacdSignal(prices, cfg),
              bb |-> Bollinger(prices, cfg),
              momentum |-> Momentum(prices, cfg),
              trend_direction |-> TrendDirection(prices),
              potential_reversal_up |->
                  IF n >= 3 /\ prev < prices[n - 2] /\ last > prev THEN 1 ELSE 0,
              potential_reversal_down |->
                  IF n >= 3 /\ prev > prices[n - 2] /\ last < prev THEN 1 ELSE 0,
              micro_move |->
                  IF Abs(last - prev) * PctBase >= cfg.tick_scalp_threshold * prev
                  THEN 1 ELSE 0,
              micro_direction |-> IF last > prev THEN 1 ELSE 0 - 1]

\* ------------------------------------------------------------------------
\* Paper trader: state
\* ------------------------------------------------------------------------

VARIABLES
    pc,                \* position of PaperTrader.run: "new", "loop", "done"
    config,            \* PaperTrader.config
    tick_interval,     \* argument of run
    now,               \* datetime.utcnow(), in seconds
    end_time,          \* local of run
    is_running,        \* PaperTrader.is_running
    tick_count,        \* local of run
    current_position,  \* PaperTrader.current_position
    closed_positions,  \* PaperTrader.closed_positions
    signals,           \* PaperTrader.signals (the signal types)
    stats,             \* PaperTrader.stats
    price_history,     \* PaperTrader.price_history
    last_trade_time,   \* PaperTrader.last_trade_time
    last_loss_time,    \* PaperTrader.last_loss_time
    report,            \* value returned by run
    traderOp,          \* the step of the trader that produced the current state
    lastClose          \* history: the trader before and after the last _close_position

traderVars == <<pc, config, tick_interval, now, end_time, is_running, tick_count,
                current_position, closed_positions, signals, stats, price_history,
                last_trade_time, last_loss_time, report, traderOp, lastClose>>

NoPosition == [id |-> 0]

HasPosition(pos) == pos.id # 0

NoSignal == [signal_type |-> "none"]

NoReport == [made |-> FALSE]

\* integer quotient rounded toward zero
DivTrunc(a, b) == IF a >= 0 THEN a \div b ELSE 0 - ((0 - a) \div b)

\* (a * k) \div b for b > 0, without forming a * k
MulDiv(a, k, b) == (a \div b) * k + ((a % b) * k) \div b

PricesOf(history) == [i \in 1..Len(history) |-> history[i].price]

\* SimulationStats(initial_capital=...) as built by PaperTrader.__init__
SimulationStats(initial_capital) ==
    [ start_time |-> NoTime, end_time |-> NoTime,
      initial_capital |-> initial_capital,
      current_capital |-> 1000 * 100 * QtyScale,
      peak_capital |-> 1000 * 100 * QtyScale,
      total_signals |-> 0, buy_signals |-> 0, sell_signals |-> 0, hold_signals |-> 0,
      trades_executed |-> 0, winning_trades |-> 0, losing_trades |-> 0,
      total_pnl |-> 0, total_pnl_percent |-> 0,
      best_trade_pnl |-> 0, worst_trade_pnl |-> 0,
      max_drawdown_pct |-> 0, current_drawdown_pct |-> 0,
      price_at_start |-> 0, price_at_end |-> 0, price_high |-> 0, price_low |-> 0 ]

\* ------------------------------------------------------------------------
\* Signal evaluator (PaperTrader._evaluate_signal)
\* ------------------------------------------------------------------------

DefaultIndicators ==
    [ empty |-> TRUE,
      rsi |-> [num |-> 50, den |-> 1],
      ema_diff |-> [num |-> 0, den |-> 1],
      ema_cross_signal |-> 0, macd_signal |-> 0,
      bb |-> [present |-> FALSE, bb_touch_lower |-> 0, bb_touch_upper |-> 0,
              below_half |-> FALSE, above_half |-> FALSE],
      momentum |-> [num |-> 0, den |-> 1],
      trend_direction |-> 0,
      potential_reversal_up |-> 0, potential_reversal_down |-> 0,
      micro_move |-> 0, micro_direction |-> 0 ]

\* indicators.get(key, default) for every key the evaluator reads
Get(indicators) == IF indicators.empty THEN DefaultIndicators ELSE indicators

BuyScore(ind, cfg) ==
    LET rsi == ind.rsi
        rsi_part ==
            IF rsi.num < cfg.rsi_oversold * rsi.den THEN 20 * cfg.weight_rsi
            ELSE IF rsi.num < 45 * rsi.den THEN 5 * cfg.weight_rsi
            ELSE 0
        ema_part ==
            IF ind.ema_cross_signal = 1 THEN 25 * cfg.weight_ema
            ELSE IF ind.ema_diff.num > 0 /\ LtTimes(ind.ema_diff.num, 1000, ind.ema_diff.den)
                 THEN 10 * cfg.weight_ema
            ELSE 0
        macd_part == IF ind.macd_signal = 1 THEN 15 * cfg.weight_macd ELSE 0
        bb_part ==
            IF ind.bb.bb_touch_lower = 1 THEN 20 * cfg.weight_bb
            ELSE IF ind.bb.below_half THEN 10 * cfg.weight_bb
            ELSE 0
        momentum_part ==
            IF ind.momentum.num * PctBase > cfg.price_change_threshold * ind.momentum.den
            THEN 20 * cfg.weight_momentum
            ELSE IF ind.momentum.num > 0 THEN 5 * cfg.weight_momentum
            ELSE 0
        action_part ==
            IF ind.potential_reversal_up = 1 THEN 15 * cfg.weight_price_action ELSE 0
        scalp_part ==
            IF cfg.strategy_type = "scalping"
            THEN (IF ind.micro_move = 1 /\ ind.micro_direction = 1 THEN 200 ELSE 0)
                 + (IF ind.trend_direction = 1 THEN 50 ELSE 0)
            ELSE 0
    IN  rsi_part + ema_part + macd_part + bb_part + momentum_part + action_part + scalp_part

SellScore(ind, cfg, price, pos) ==
    LET rsi == ind.rsi
        gain == (price - pos.entry_price) * PctBase
        rsi_part ==
            IF rsi.num > cfg.rsi_overbought * rsi.den THEN 20 * cfg.weight_rsi
            ELSE IF rsi.num > 55 * rsi.den THEN 5 * cfg.weight_rsi
            ELSE 0
        ema_part ==
            IF ind.ema_cross_signal = 0 - 1 THEN 25 * cfg.weight_ema
            ELSE IF ind.ema_diff.num < 0 THEN 10 * cfg.weight_ema
            ELSE 0
        macd_part == IF ind.macd_signal = 0 - 1 THEN 15 * cfg.weight_macd ELSE 0
        bb_part ==
            IF ind.bb.bb_touch_upper = 1 THEN 20 * cfg.weight_bb
            ELSE IF ind.bb.above_half THEN 10 * cfg.weight_bb
            ELSE 0
        momentum_part ==
            IF ind.momentum.num * PctBase < 0 - cfg.price_change_threshold * ind.momentum.den
            THEN 20 * cfg.weight_momentum
            ELSE 0
        profit_part ==
            IF cfg.strategy_type = "scalping"
            THEN IF gain >= cfg.micro_profit_target * pos.entry_price THEN 300 ELSE 0
            ELSE IF gain * 10 > cfg.take_profit_pct * 7 * pos.entry_price THEN 150 ELSE 0
        loss_part ==
            IF cfg.strategy_type = "scalping"
               /\ gain <= 0 - cfg.micro_stop_loss * pos.entry_price
            THEN 500 ELSE 0
        action_part ==
            IF ind.potential_reversal_down = 1 THEN 15 * cfg.weight_price_action ELSE 0
        scalp_part ==
            IF cfg.strategy_type = "scalping"
               /\ ind.micro_move = 1 /\ ind.micro_direction = 0 - 1
            THEN 150 ELSE 0
    IN  rsi_part + ema_part + macd_part + bb_part + momentum_part + profit_part
        + loss_part + action_part + scalp_part

MakeSignal(type, price, timestamp, confidence, reason, strategy) ==
    [ signal_type |-> type, price |-> price, timestamp |-> timestamp,
      confidence |-> confidence, reason |-> reason, strategy_triggered |-> strategy ]

\* _evaluate_signal without the cooldown after a loss
EvaluateNoLossCooldown(price, indicators, timestamp, cfg, pos, lastTrade, lastLoss) ==
    LET ind == Get(indicators)
        buy_score == BuyScore(ind, cfg)
        sell_score == SellScore(ind, cfg, price, pos)
    IN  IF lastTrade # NoTime /\ timestamp - lastTrade < cfg.min_time_between_trades
        THEN NoSignal
        ELSE IF HasPosition(pos) /\ timestamp - pos.entry_time > cfg.max_position_duration
        THEN MakeSignal("sell", price, timestamp, 50, "max_position_duration", "time_exit")
        ELSE IF ~HasPosition(pos)
        THEN IF buy_score >= cfg.min_buy_score
             THEN MakeSignal("buy", price, timestamp, Min(buy_score \div 8, 100),
                             "buy_reasons", "scored")
             ELSE NoSignal
        ELSE IF sell_score >= cfg.min_sell_score
             THEN MakeSignal("sell", price, timestamp, Min(sell_score \div 8, 100),
                             "sell_reasons", "scored")
             ELSE NoSignal

\* _evaluate_signal without the exit after max_position_duration
EvaluateNoTimeExit(price, indicators, timestamp, cfg, pos, lastTrade, lastLoss) ==
    LET ind == Get(indicators)
        buy_score == BuyScore(ind, cfg)
        sell_score == SellScore(ind, cfg, price, pos)
    IN  IF lastTrade # NoTime /\ timestamp - lastTrade < cfg.min_time_between_trades
        THEN NoSignal
        ELSE IF lastLoss # NoTime /\ timestamp - lastLoss < cfg.cooldown_after_loss
        THEN NoSignal
        ELSE IF ~HasPosition(pos)
        THEN IF buy_score >= cfg.min_buy_score
             THEN MakeSignal("buy", price, timestamp, Min(buy_score \div 8, 100),
                             "buy_reasons", "scored")
             ELSE NoSignal
        ELSE IF sell_score >= cfg.min_sell_score
             THEN MakeSignal("sell", price, timestamp, Min(sell_score \div 8, 100),
                             "sell_reasons", "scored")
             ELSE NoSignal

\* the result of _evaluate_signal; NoSignal is the implicit HOLD
_evaluate_signal(price, indicators, timestamp, cfg, pos, lastTrade, lastLoss) ==
    LET ind == Get(indicators)
        buy_score == BuyScore(ind, cfg)
        sell_score == SellScore(ind, cfg, price, pos)
    IN  IF lastTrade # NoTime /\ timestamp - lastTrade < cfg.min_time_between_trades
        THEN NoSignal
        ELSE IF lastLoss # NoTime /\ timestamp - lastLoss < cfg.cooldown_after_loss
        THEN NoSignal
        ELSE IF HasPosition(pos) /\ timestamp - pos.entry_time > cfg.max_position_duration
        THEN MakeSignal("sell", price, timestamp, 50, "max_position_duration", "time_exit")
        ELSE IF ~HasPosition(pos)
        THEN IF buy_score >= cfg.min_buy_score
             THEN MakeSignal("buy", price, timestamp, Min(buy_score \div 8, 100),
                             "buy_reasons", "scored")
             ELSE NoSignal
        ELSE IF sell_score >= cfg.min_sell_score
             THEN MakeSignal("sell", price, timestamp, Min(sell_score \div 8, 100),
                             "sell_reasons", "scored")
             ELSE NoSignal

\* ------------------------------------------------------------------------
\* Paper trader: handlers as functions of the trader's fields
\* ------------------------------------------------------------------------
\* T is the record of the fields a tick may change:
\* current_position, closed_positions, signals, stats, price_history,
\* last_trade_time, last_loss_time, and the history field lastClose.

NoClose == [happened |-> FALSE]

NoPrice == 0 - 1

FailedFetch == [ok |-> FALSE, best_bid |-> 0]

\* replies of _get_public_price: None, or a ticker whose best_bid is a price
\* (0 when the reply carries no amount)
Tickers == {FailedFetch} \cup {[ok |-> TRUE, best_bid |-> b] : b \in Prices \cup {0}}

_update_price_stats(st, price) ==
    [st EXCEPT
       !.price_at_start = IF st.price_at_start = 0 THEN price ELSE st.price_at_start,
       !.price_at_end = price,
       !.price_high = IF st.price_high = 0 \/ price > st.price_high THEN price ELSE st.price_high,
       !.price_low = IF st.price_low = 0 \/ price < st.price_low THEN price ELSE st.price_low]

\* CloseStats with a close at pnl = 0 counted neither as a win nor as a loss
CloseStatsDrawUncounted(st, pnl) ==
    LET capital == st.current_capital + pnl
        peak == IF capital > st.peak_capital THEN capital ELSE st.peak_capital
        current_dd == MulDiv(peak - capital, 100 * DdScale, peak)
    IN  [st EXCEPT
           !.current_capital = capital,
           !.peak_capital = peak,
           !.max_drawdown_pct = IF current_dd > st.max_drawdown_pct THEN current_dd
                                ELSE st.max_drawdown_pct,
           !.current_drawdown_pct = current_dd,
           !.winning_trades = IF pnl > 0 THEN st.winning_trades + 1 ELSE st.winning_trades,
           !.losing_trades = IF pnl < 0 THEN st.losing_trades + 1 ELSE st.losing_trades]

\* CloseStats with the drawdown measured against the peak before this close
CloseStatsStalePeak(st, pnl) ==
    LET capital == st.current_capital + pnl
        peak == IF capital > st.peak_capital THEN capital ELSE st.peak_capital
        current_dd == MulDiv(st.peak_capital - capital, 100 * DdScale, st.peak_capital)
    IN  [st EXCEPT
           !.current_capital = capital,
           !.peak_capital = peak,
           !.max_drawdown_pct = IF current_dd > st.max_drawdown_pct THEN current_dd
                                ELSE st.max_drawdown_pct,
           !.current_drawdown_pct = current_dd,
           !.winning_trades = IF pnl > 0 THEN st.winning_trades + 1 ELSE st.winning_trades,
           !.losing_trades = IF pnl > 0 THEN st.losing_trades ELSE st.losing_trades + 1]

\* CloseStats with the peak following the capital after every close
CloseStatsPeakFollows(st, pnl) ==
    LET capital == st.current_capital + pnl
    IN  [st EXCEPT
           !.current_capital = capital,
           !.peak_capital = capital,
           !.current_drawdown_pct = 0,
           !.winning_trades = IF pnl > 0 THEN st.winning_trades + 1 ELSE st.winning_trades,
           !.losing_trades = IF pnl > 0 THEN st.losing_trades ELSE st.losing_trades + 1]

\* the statistics after a close with realised pnl
CloseStats(st, pnl) ==
    LET capital == st.current_capital + pnl
        peak == IF capital > st.peak_capital THEN capital ELSE st.peak_capital
        current_dd == MulDiv(peak - capital, 100 * DdScale, peak)
    IN  [st EXCEPT
           !.current_capital = capital,
           !.peak_capital = peak,
           !.max_drawdown_pct = IF current_dd > st.max_drawdown_pct THEN current_dd
                                ELSE st.max_drawdown_pct,
           !.current_drawdown_pct = current_dd,
           !.winning_trades = IF pnl > 0 THEN st.winning_trades + 1 ELSE st.winning_trades,
           !.losing_trades = IF pnl > 0 THEN st.losing_trades ELSE st.losing_trades + 1,
           !.best_trade_pnl = IF pnl > 0 /\ pnl > st.best_trade_pnl THEN pnl
                              ELSE st.best_trade_pnl,
           !.worst_trade_pnl = IF ~(pnl > 0) /\ pnl < st.worst_trade_pnl THEN pnl
                               ELSE st.worst_trade_pnl]

\* ClosedRecord with the profit taken from the highest price seen, not the exit
ClosedRecordFromHigh(pos, reason, exit_price, signal_reason, t) ==
    [pos EXCEPT
       !.exit_price = exit_price,
       !.exit_time = t,
       !.exit_reason = IF signal_reason # "" THEN signal_reason ELSE reason,
       !.pnl = (pos.highest_price - pos.entry_price) * pos.quantity,
       !.pnl_percent = DivTrunc((pos.highest_price - pos.entry_price) * PctBase,
                                pos.entry_price)]

\* the position as _close_position stores it in closed_positions
ClosedRecord(pos, reason, exit_price, signal_reason, t) ==
    [pos EXCEPT
       !.exit_price = exit_price,
       !.exit_time = t,
       !.exit_reason = IF signal_reason # "" THEN signal_reason ELSE reason,
       !.pnl = (exit_price - pos.entry_price) * pos.quantity,
       !.pnl_percent = DivTrunc((exit_price - pos.entry_price) * PctBase, pos.entry_price)]

\* _close_position without the append to closed_positions
CloseWithoutAppend(T, reason, exit_price, signal_reason, ticker, t) ==
    IF ~HasPosition(T.current_position) THEN T
    ELSE LET pos == T.current_position
             exit == IF exit_price = NoPrice
                     THEN (IF ticker.ok THEN ticker.best_bid ELSE pos.entry_price)
                     ELSE exit_price
             closed == ClosedRecord(pos, reason, exit, signal_reason, t)
         IN  [T EXCEPT
                !.stats = CloseStats(T.stats, closed.pnl),
                !.last_loss_time = IF closed.pnl > 0 THEN T.last_loss_time ELSE t,
                !.last_trade_time = t,
                !.current_position = NoPosition]

\* PaperTrader._close_position; exit_price = NoPrice asks the price source (ticker)
_close_position(T, reason, exit_price, signal_reason, ticker, t) ==
    IF ~HasPosition(T.current_position) THEN T
    ELSE LET pos == T.current_position
             exit == IF exit_price = NoPrice
                     THEN (IF ticker.ok THEN ticker.best_bid ELSE pos.entry_price)
                     ELSE exit_price
             closed == ClosedRecord(pos, reason, exit, signal_reason, t)
         IN  [T EXCEPT
                !.stats = CloseStats(T.stats, closed.pnl),
                !.last_loss_time = IF closed.pnl > 0 THEN T.last_loss_time ELSE t,
                !.last_trade_time = t,
                !.closed_positions = Append(T.closed_positions, closed),
                !.current_position = NoPosition]

\* a call of _close_position, with the trader before and after it kept in lastClose
Closing(T, reason, exit_price, signal_reason, ticker, t) ==
    LET after == _close_position(T, reason, exit_price, signal_reason, ticker, t)
    IN  [after EXCEPT !.lastClose =
            [happened |-> TRUE,
             reason |-> reason,
             pre_position |-> T.current_position,
             pre_trades_executed |-> T.stats.trades_executed,
             pre_closed |-> T.closed_positions,
             post_trades_executed |-> after.stats.trades_executed,
             post_closed |-> after.closed_positions,
             post_position |-> after.current_position]]

\* the position _execute_signal opens on a BUY
OpenPosition(st, signal, cfg) ==
    LET sl_pct == IF cfg.strategy_type = "scalping" THEN cfg.micro_stop_loss
                  ELSE cfg.stop_loss_pct
        tp_pct == IF cfg.strategy_type = "scalping" THEN cfg.micro_profit_target
                  ELSE cfg.take_profit_pct
    IN  [ id |-> st.trades_executed + 1,
          entry_price |-> signal.price,
          entry_time |-> signal.timestamp,
          quantity |-> DivTrunc(st.current_capital * cfg.position_size_pct, 100 * signal.price),
          stop_loss |-> signal.price * (PctBase - sl_pct),
          take_profit |-> signal.price * (PctBase + tp_pct),
          highest_price |-> signal.price,
          lowest_price |-> signal.price,
          exit_price |-> NoPrice, exit_time |-> NoTime, exit_reason |-> "",
          pnl |-> 0, pnl_percent |-> 0 ]

\* PaperTrader._execute_signal
_execute_signal(T, signal, cfg, t) ==
    IF signal.signal_type = "buy" /\ ~HasPosition(T.current_position)
    THEN [T EXCEPT
            !.current_position = OpenPosition(T.stats, signal, cfg),
            !.last_trade_time = signal.timestamp,
            !.stats.trades_executed = T.stats.trades_executed + 1]
    ELSE IF signal.signal_type = "sell" /\ HasPosition(T.current_position)
    THEN Closing(T, "signal", signal.price, signal.reason, FailedFetch, t)
    ELSE T

\* the trailing-stop update of _check_exit_conditions
TrailStop(pos, current_price, cfg) ==
    IF current_price > pos.highest_price
    THEN LET new_stop == current_price * (PctBase - cfg.trailing_stop_pct)
         IN  [pos EXCEPT !.highest_price = current_price,
                         !.stop_loss = IF new_stop > pos.stop_loss THEN new_stop
                                       ELSE pos.stop_loss]
    ELSE pos

\* PaperTrader._check_exit_conditions
_check_exit_conditions(T, current_price, cfg, t) ==
    IF ~HasPosition(T.current_position) THEN T
    ELSE LET pos == TrailStop(T.current_position, current_price, cfg)
             T1 == [T EXCEPT !.current_position = pos]
         IN  IF current_price * PctBase <= pos.stop_loss
             THEN Closing(T1, "stop_loss", current_price, "", FailedFetch, t)
             ELSE IF current_price * PctBase >= pos.take_profit
             THEN Closing(T1, "take_profit", current_price, "", FailedFetch, t)
             ELSE T1

CountSignal(st, signal) ==
    [st EXCEPT
       !.total_signals = st.total_signals + 1,
       !.buy_signals = IF signal.signal_type = "buy" THEN st.buy_signals + 1
                       ELSE st.buy_signals,
       !.sell_signals = IF signal.signal_type = "sell" THEN st.sell_signals + 1
                        ELSE st.sell_signals]

KeepLast(history, cap) ==
    IF Len(history) > cap THEN SubSeq(history, Len(history) - cap + 1, Len(history))
    ELSE history

\* PaperTrader._process_tick from the price on
ProcessPrice(T, price, cfg, t) ==
         LET T1 == [T EXCEPT
                      !.stats = _update_price_stats(T.stats, price),
                      !.price_history =
                          KeepLast(Append(T.price_history,
                                          [timestamp |-> t, price |-> price]), HistoryCap)]
             indicators == _calculate_indicators(PricesOf(T1.price_history), cfg)
             signal == _evaluate_signal(price, indicators, t, cfg, T1.current_position,
                                        T1.last_trade_time, T1.last_loss_time)
             T2 == IF signal.signal_type = "none" THEN T1
                   ELSE _execute_signal(
                            [T1 EXCEPT !.signals = Append(T1.signals, signal.signal_type),
                                       !.stats = CountSignal(T1.stats, signal)],
                            signal, cfg, t)
         IN  IF HasPosition(T2.current_position)
             THEN _check_exit_conditions(T2, price, cfg, t)
             ELSE T2

\* _process_tick that goes on with the last known price when the fetch fails
ProcessTickStalePrice(T, ticker, cfg, t) ==
    IF ~ticker.ok
    THEN (IF T.price_history = <<>> THEN T
          ELSE ProcessPrice(T, T.price_history[Len(T.price_history)].price, cfg, t))
    ELSE IF ticker.best_bid = 0 THEN T
    ELSE ProcessPrice(T, ticker.best_bid, cfg, t)

\* PaperTrader._process_tick
_process_tick(T, ticker, cfg, t) ==
    IF ~ticker.ok THEN T
    ELSE IF ticker.best_bid = 0 THEN T
    ELSE ProcessPrice(T, ticker.best_bid, cfg, t)

\* ------------------------------------------------------------------------
\* Paper trader: actions of PaperTrader.run
\* ------------------------------------------------------------------------

Fields ==
    [ current_position |-> current_position, closed_positions |-> closed_positions,
      signals |-> signals, stats |-> stats, price_history |-> price_history,
      last_trade_time |-> last_trade_time, last_loss_time |-> last_loss_time,
      lastClose |-> lastClose ]

SetFields(T) ==
    /\ current_position' = T.current_position
    /\ closed_positions' = T.closed_positions
    /\ signals' = T.signals
    /\ stats' = T.stats
    /\ price_history' = T.price_history
    /\ last_trade_time' = T.last_trade_time
    /\ last_loss_time' = T.last_loss_time
    /\ lastClose' = T.lastClose

\* PaperTrader.__init__, for each caller's configuration
TraderInitWith(r) ==
    /\ pc = "new"
    /\ config = r.config /\ tick_interval = r.tick_interval
    /\ now = 0
    /\ end_time = 0
    /\ is_running = FALSE
    /\ tick_count = 0
    /\ current_position = NoPosition
    /\ closed_positions = <<>>
    /\ signals = <<>>
    /\ stats = SimulationStats(InitialCapital)
    /\ price_history = <<>>
    /\ last_trade_time = NoTime
    /\ last_loss_time = NoTime
    /\ report = NoReport
    /\ traderOp = "init"
    /\ lastClose = NoClose

TraderInit == \E r \in Runs : TraderInitWith(r)

\* run(duration_seconds), up to the tick loop
RunStartFor(duration_seconds) ==
    /\ pc = "new"
    /\ pc' = "loop"
    /\ is_running' = TRUE
    /\ stats' = [stats EXCEPT !.start_time = now,
                              !.current_capital = InitialCapital,
                              !.peak_capital = InitialCapital]
    /\ end_time' = now + duration_seconds
    /\ traderOp' = "start"
    /\ UNCHANGED <<config, tick_interval, now, tick_count, current_position,
                   closed_positions, signals, price_history, last_trade_time,
                   last_loss_time, report, lastClose>>

\* a run that lasts MaxTicks ticks
RunStart == RunStartFor(MaxTicks * tick_interval)

\* one iteration of the loop, the price endpoint answering from tickers
\* after one of the delays: _process_tick, which reads the clock once the
\* price has arrived, then asyncio.sleep(tick_interval)
TickAfter(tickers, delays) ==
    /\ pc = "loop"
    /\ now < end_time /\ is_running
    /\ \E ticker \in tickers, d \in delays :
         /\ SetFields(_process_tick(Fields, ticker, config, now + d))
         /\ now' = now + d + tick_interval
    /\ tick_count' = tick_count + 1
    /\ traderOp' = "tick"
    /\ UNCHANGED <<pc, config, tick_interval, end_time, is_running, report>>

\* the price endpoint answers at once
TickOn(tickers) == TickAfter(tickers, {0})

Tick == TickOn(Tickers)

\* SimulationStats after the finally block of run
FinalStats(st, t) ==
    [st EXCEPT
       !.end_time = t,
       !.total_pnl = st.current_capital - InitialCapital,
       !.total_pnl_percent =
           DivTrunc((st.current_capital - InitialCapital) * 100, InitialCapital \div 100)]

\* GraphConfig.to_dict: the fields it lists
GraphConfigToDict(c) ==
    [ strategy_type |-> c.strategy_type,
      rsi_oversold |-> c.rsi_oversold, rsi_overbought |-> c.rsi_overbought,
      rsi_period |-> c.rsi_period,
      ema_fast_period |-> c.ema_fast_period, ema_slow_period |-> c.ema_slow_period,
      macd_fast |-> c.macd_fast, macd_slow |-> c.macd_slow,
      bb_period |-> c.bb_period, bb_std_dev |-> c.bb_std_dev,
      price_change_threshold |-> c.price_change_threshold,
      momentum_period |-> c.momentum_period,
      micro_profit_target |-> c.micro_profit_target,
      micro_stop_loss |-> c.micro_stop_loss,
      position_size_pct |-> c.position_size_pct,
      stop_loss_pct |-> c.stop_loss_pct, take_profit_pct |-> c.take_profit_pct,
      trailing_stop_pct |-> c.trailing_stop_pct,
      min_time_between_trades |-> c.min_time_between_trades,
      cooldown_after_loss |-> c.cooldown_after_loss,
      min_buy_score |-> c.min_buy_score, min_sell_score |-> c.min_sell_score,
      weight_rsi |-> c.weight_rsi, weight_ema |-> c.weight_ema,
      weight_macd |-> c.weight_macd, weight_momentum |-> c.weight_momentum ]

\* the candidate parameters are kept in 1/RecScale of the configuration's
\* units, so that the products by 0.7, 0.8, 1.2, 1.3 and 1.5 are exact
RecScale == 10

Scaled(d) ==
    [k \in DOMAIN d |-> IF k = "strategy_type" THEN d[k] ELSE d[k] * RecScale]

\* a / b < c / d for b > 0 and d > 0, by the integer parts and then the
\* reciprocals of the remainders: no product is formed
RECURSIVE RatLess(_, _, _, _)
RatLess(a, b, c, d) ==
    IF a \div b # c \div d THEN a \div b < c \div d
    ELSE IF c % d = 0 THEN FALSE
    ELSE IF a % b = 0 THEN TRUE
    ELSE RatLess(d, c % d, b, a % b)

\* total_pnl_percent < _buy_and_hold_pnl() - 1, compared on the exact
\* quotients: total_pnl / initial * 100 < (end - start) / start * 100 - 1
UnderperformsBuyAndHold(st) ==
    IF st.price_at_start # 0 /\ st.price_at_end # 0
    THEN RatLess(st.total_pnl, InitialCapital \div 100,
                 (st.price_at_end - st.price_at_start) * 100 - st.price_at_start,
                 st.price_at_start)
    ELSE RatLess(st.total_pnl, InitialCapital \div 100, 0 - 1, 1)

\* the rules of _generate_recommendations with the low win rate rule applied
\* after the rule for a simulation without trades
RecommendationsTightenLast(st, cfg) ==
    LET low == IF st.trades_executed > 0
               THEN st.winning_trades * 10 < 4 * st.trades_executed ELSE TRUE
        p0 == Scaled(GraphConfigToDict(cfg))
        p1 == IF st.trades_executed = 0
              THEN [p0 EXCEPT !.rsi_oversold = Min(cfg.rsi_oversold + 5, 40) * RecScale,
                              !.price_change_threshold = cfg.price_change_threshold * 7]
              ELSE p0
        p2 == IF low
              THEN [p1 EXCEPT !.rsi_oversold = Max(cfg.rsi_oversold - 5, 20) * RecScale,
                              !.price_change_threshold = cfg.price_change_threshold * 13]
              ELSE p1
    IN  [ v2_params |-> p2,
          changes |-> (IF low THEN <<"Low win rate">> ELSE <<>>)
                      \o (IF st.trades_executed = 0 THEN <<"No trades executed">> ELSE <<>>) ]

\* the rules of _generate_recommendations without the low win rate rule
RecommendationsNoTighten(st, cfg) ==
    LET p0 == Scaled(GraphConfigToDict(cfg))
        p1 == IF st.trades_executed = 0
              THEN [p0 EXCEPT !.rsi_oversold = Min(cfg.rsi_oversold + 5, 40) * RecScale,
                              !.price_change_threshold = cfg.price_change_threshold * 7]
              ELSE p0
    IN  [ v2_params |-> p1,
          changes |-> IF st.trades_executed = 0 THEN <<"No trades executed">> ELSE <<>> ]

\* PaperTrader._generate_recommendations: v2_params and changes.  Each rule
\* reads the old value from the configuration and writes new_params, in the
\* order of the code.  max_drawdown_pct is read at the resolution 1/DdScale.
_generate_recommendations(st, cfg) ==
    LET win_rate_low ==
            IF st.trades_executed > 0
            THEN st.winning_trades * 10 < 4 * st.trades_executed
            ELSE TRUE
        high_drawdown == st.max_drawdown_pct > 5 * DdScale
        p0 == Scaled(GraphConfigToDict(cfg))
        p1 == IF win_rate_low
              THEN [p0 EXCEPT !.rsi_oversold = Max(cfg.rsi_oversold - 5, 20) * RecScale,
                              !.price_change_threshold = cfg.price_change_threshold * 13]
              ELSE p0
        p2 == IF high_drawdown
              THEN [p1 EXCEPT !.position_size_pct =
                                  Max(cfg.position_size_pct * 7, 5 * RecScale),
                              !.stop_loss_pct =
                                  Max(cfg.stop_loss_pct * 8, 100 * RecScale)]
              ELSE p1
        p3 == IF st.trades_executed > 10
              THEN [p2 EXCEPT !.min_time_between_trades =
                                  ((cfg.min_time_between_trades * 15) \div 10) * RecScale]
              ELSE p2
        p4 == IF st.trades_executed = 0
              THEN [p3 EXCEPT !.rsi_oversold = Min(cfg.rsi_oversold + 5, 40) * RecScale,
                              !.price_change_threshold = cfg.price_change_threshold * 7]
              ELSE p3
        p5 == IF UnderperformsBuyAndHold(st)
              THEN [p4 EXCEPT !.take_profit_pct = cfg.take_profit_pct * 12]
              ELSE p4
    IN  [ v2_params |-> p5,
          changes |-> (IF win_rate_low THEN <<"Low win rate">> ELSE <<>>)
                      \o (IF high_drawdown THEN <<"High drawdown">> ELSE <<>>)
                      \o (IF st.trades_executed > 10 THEN <<"High trade frequency">> ELSE <<>>)
                      \o (IF st.trades_executed = 0 THEN <<"No trades executed">> ELSE <<>>)
                      \o (IF UnderperformsBuyAndHold(st)
                          THEN <<"Underperforming buy & hold">> ELSE <<>>) ]

\* PaperTrader._generate_report (stats, trades and recommendations)
_generate_report(T) ==
    [ made |-> TRUE, stats |-> T.stats, trades |-> T.closed_positions,
      recommendations |-> _generate_recommendations(T.stats, config) ]

\* Finish without the close of a position that is still open
FinishWithoutClose(cause) ==
    /\ pc = "loop"
    /\ \/ cause = "exception"
       \/ cause = "expired" /\ ~(now < end_time /\ is_running)
    /\ LET T2 == [Fields EXCEPT !.stats = FinalStats(stats, now)]
       IN  /\ SetFields(T2)
           /\ report' = _generate_report(T2)
    /\ is_running' = FALSE
    /\ pc' = "done"
    /\ traderOp' = cause
    /\ UNCHANGED <<config, tick_interval, now, end_time, tick_count>>

\* the loop has ended (cause "expired") or an exception left it (cause
\* "exception"): the finally block of run, then the report, the price
\* endpoint answering from tickers
FinishOn(cause, tickers) ==
    /\ pc = "loop"
    /\ \/ cause = "exception"
       \/ cause = "expired" /\ ~(now < end_time /\ is_running)
    /\ \E ticker \in tickers :
         LET T1 == IF HasPosition(current_position)
                   THEN Closing(Fields, "simulation_end", NoPrice, "", ticker, now)
                   ELSE Fields
             T2 == [T1 EXCEPT !.stats = FinalStats(T1.stats, now)]
         IN  /\ SetFields(T2)
             /\ report' = _generate_report(T2)
    /\ is_running' = FALSE
    /\ pc' = "done"
    /\ traderOp' = cause
    /\ UNCHANGED <<config, tick_interval, now, end_time, tick_count>>

Finish(cause) == FinishOn(cause, Tickers)

NextTrader ==
    \/ RunStart
    \/ Tick
    \/ Finish("expired")
    \/ Finish("exception")

\* ------------------------------------------------------------------------
\* Trading agent (TradingAgent), its advisor (AgentBrain) and its readers
\* ------------------------------------------------------------------------
\* Scores and win rates are whole percents.  agentPc is the await the agent
\* task is suspended at; one action is the code between two awaits that
\* changes the agent, so a reader runs between any two of them.

\* versions one agent may hold
MaxVersions == 3

\* simulations one agent may run
MaxSimulations == 3
\* events the agent may issue in a run of the model
MaxIssued == 12

\* TradingAgent.high_score_threshold
HighScoreThreshold == 65

\* TradingAgent.medium_score_threshold
MediumScoreThreshold == 50

\* the largest penalty the market distance takes from a score (distance 1.0)
DistancePenalty == 10

VARIABLES
    agentPc,             \* where the task running TradingAgent.start is suspended
    state,               \* TradingAgent.state
    agent_is_running,    \* TradingAgent.is_running
    versions,            \* TradingAgent.versions
    current_version,     \* index in versions of TradingAgent.current_version, 0 for None
    simulation_history,  \* TradingAgent.simulation_history
    sim_phase,           \* which simulation of the cycle is running
    initial_winrate,     \* winrate of the cycle's initial simulation
    nextVersionId,       \* stands for the next uuid4
    created,             \* history: id, name and config of every version as created
    status,              \* response of the get_status call that has just run
    decided,             \* history: the evaluation that has just run (score, the
                         \* advisor's reply and the decision of _evaluate_score)
    agentOp              \* the operation that produced the current state

agentVars == <<agentPc, state, agent_is_running, versions, current_version,
               simulation_history, sim_phase, initial_winrate, nextVersionId,
               created, status, decided, agentOp>>

NoStatus == [made |-> FALSE]

NoDecision == [made |-> FALSE]

\* AgentVersion(id=, name=, config=) with the dataclass defaults
AgentVersion(id, name, graph_config) ==
    [ id |-> id, name |-> name, config |-> graph_config,
      score |-> 0, winrate |-> 0, total_simulations |-> 0, is_active |-> FALSE ]

\* TradingAgent._create_initial_version
_create_initial_version(id) ==
    [ AgentVersion(id, [number |-> 1, suffix |-> "initial"], GRAPH_SCALPING)
        EXCEPT !.is_active = TRUE ]

\* the version _load_versions_from_db builds from a stored row
StoredVersion(row) ==
    [ id |-> <<"db", row.id>>, name |-> [number |-> row.id, suffix |-> "stored"],
      config |-> row.config,
      score |-> row.win_rate, winrate |-> row.win_rate, total_simulations |-> 1,
      is_active |-> row.is_active ]

\* what the version store may answer: nothing usable, or rows of which the
\* first one is appended before the load gives up
LoadOutcomes ==
    { [rows |-> FALSE] } \cup
    { [rows |-> TRUE, id |-> 1, config |-> EmptyDictConfig, win_rate |-> w, is_active |-> a] :
          w \in {0, 70}, a \in BOOLEAN }

\* AgentVersion.to_dict
VersionToDict(v) ==
    [ id |-> v.id, name |-> v.name,
      config |-> IF IsDict(v.config) THEN v.config ELSE GraphConfigToDict(v.config),
      score |-> v.score, winrate |-> v.winrate,
      total_simulations |-> v.total_simulations, is_active |-> v.is_active ]

\* a reader that takes the identity of the current version and the
\* configuration of the newest one
StatusOfNewest(st, running, vs, cur, history) ==
    [ made |-> TRUE, state |-> st, is_running |-> running,
      has_version |-> cur # 0,
      current_version |->
          IF cur = 0 THEN [id |-> <<"none", 0>>]
          ELSE [VersionToDict(vs[cur]) EXCEPT
                   !.config = VersionToDict(vs[Len(vs)]).config],
      versions_count |-> Len(vs), simulations_count |-> Len(history) ]

\* TradingAgent.get_status
get_status(st, running, vs, cur, history) ==
    [ made |-> TRUE, state |-> st, is_running |-> running,
      has_version |-> cur # 0,
      current_version |-> IF cur = 0 THEN [id |-> <<"none", 0>>]
                          ELSE VersionToDict(vs[cur]),
      versions_count |-> Len(vs), simulations_count |-> Len(history) ]

\* results of one PaperTrader.run as the agent reads them from the report
SimOutcomes ==
    { [winrate |-> 0, total_pnl_percent |-> 0 - 3],
      [winrate |-> 55, total_pnl_percent |-> 1],
      [winrate |-> 70, total_pnl_percent |-> 6] }

\* score = winrate + min(total_pnl_percent * 2, 10)
ScoreOf(outcome) == outcome.winrate + Min(outcome.total_pnl_percent * 2, 10)

\* replies of the advisor to EVALUATE_SIMULATION (the fallback recommends
\* "optimize"; a failed call has success = FALSE)
EvaluateReplies ==
    { [success |-> TRUE, recommended |-> r] :
          r \in {"run_short_sim", "optimize", "search_history", ""} }
    \cup { [success |-> FALSE, recommended |-> ""] }

\* TradingAgent._evaluate_score
_evaluate_score(score, reply) ==
    IF reply.success /\ (reply.recommended = "run_short_sim" \/ score >= HighScoreThreshold)
    THEN "run_short_simulation"
    ELSE IF reply.success /\ (reply.recommended = "optimize" \/ score >= MediumScoreThreshold)
    THEN "optimize_parameters"
    ELSE IF reply.success /\ reply.recommended = "search_history"
    THEN "search_history"
    ELSE IF score >= HighScoreThreshold THEN "run_short_simulation"
    ELSE IF score >= MediumScoreThreshold THEN "optimize_parameters"
    ELSE "search_history"

\* "optimized_parameters" of AgentBrain._fallback_response: the two ends of
\* the ranges its random draws cover
FallbackSuggestions ==
    { [ rsi_oversold |-> 35, rsi_overbought |-> 55, stop_loss_pct |-> 15,
        take_profit_pct |-> 20, micro_profit_target |-> 10, micro_stop_loss |-> 5,
        min_time_between_trades |-> 3, position_size_pct |-> 5,
        min_buy_score |-> 150, min_sell_score |-> 150 ],
      [ rsi_oversold |-> 45, rsi_overbought |-> 65, stop_loss_pct |-> 50,
        take_profit_pct |-> 80, micro_profit_target |-> 20, micro_stop_loss |-> 10,
        min_time_between_trades |-> 15, position_size_pct |-> 15,
        min_buy_score |-> 300, min_sell_score |-> 300 ] }

\* "optimized_parameters" of replies of the language model: one inside the
\* ranges the prompt asks for, one outside them
ModelSuggestions ==
    { [NoSuggestions EXCEPT !.rsi_oversold = 30, !.stop_loss_pct = 100],
      [NoSuggestions EXCEPT !.rsi_oversold = 90, !.stop_loss_pct = 500,
                            !.position_size_pct = 150,
                            !.min_time_between_trades = 0] }

\* replies of the advisor to OPTIMIZE_PARAMETERS; adoptable = FALSE stands for
\* a failed call, a reply without "optimized_parameters" and an exception
\* raised before the new version is built
OptimizeReplies ==
    { [adoptable |-> TRUE, suggestions |-> x] :
          x \in FallbackSuggestions \cup ModelSuggestions }
    \cup { [adoptable |-> FALSE, suggestions |-> NoSuggestions] }

\* the adoption that rewrites the configuration of the current version in
\* place and appends the new version without making it current
AdoptInPlace(vs, cur, new_version) ==
    [ versions |-> Append(IF cur = 0 THEN vs
                          ELSE [vs EXCEPT ![cur].config = new_version.config],
                          new_version),
      current_version |-> IF cur = 0 THEN Len(vs) + 1 ELSE cur ]

\* versions.append(new_version); current_version = new_version
Adopt(vs, cur, new_version) ==
    [ versions |-> Append(vs, new_version), current_version |-> Len(vs) + 1 ]

\* the versions the fallback of _find_best_historical_version may return:
\* among versions[:-1] with score >= medium_score_threshold the one with the
\* largest score less its market distance penalty (between 0 and
\* DistancePenalty, from random market conditions)
FallbackBest(vs) ==
    LET eligible == {i \in 1..(Len(vs) - 1) : vs[i].score >= MediumScoreThreshold}
    IN  {i \in eligible : \A j \in eligible : vs[i].score + DistancePenalty > vs[j].score}

\* what _find_best_historical_version may return for the advisor's
\* best_version_id (0: none, or an id no version has), as indices, 0 for None
_find_best_historical_version(vs, best_version_id) ==
    IF best_version_id \in 1..Len(vs) THEN {best_version_id}
    ELSE IF FallbackBest(vs) = {} THEN {0}
    ELSE FallbackBest(vs)

AgentInit ==
    /\ agentPc = "idle"
    /\ state = "idle"
    /\ agent_is_running = FALSE
    /\ versions = <<>>
    /\ current_version = 0
    /\ simulation_history = <<>>
    /\ sim_phase = "none"
    /\ initial_winrate = 0
    /\ nextVersionId = 1
    /\ created = {}
    /\ status = NoStatus
    /\ decided = NoDecision
    /\ agentOp = "init"

Registered(v) == [id |-> v.id, name |-> v.name, config |-> v.config]

\* start, up to the await of _load_versions_from_db
AgentStart ==
    /\ agentPc \in {"idle", "returned"}
    /\ agent_is_running' = TRUE
    /\ state' = "running_initial_simulation"
    /\ agentPc' = "loading"
    /\ agentOp' = "start"
    /\ status' = NoStatus
    /\ decided' = NoDecision
    /\ UNCHANGED <<versions, current_version, simulation_history, sim_phase,
                   initial_winrate, nextVersionId, created>>

\* _load_versions_from_db, up to the await of emit_agent_started
LoadVersions ==
    /\ agentPc = "loading"
    /\ \E outcome \in LoadOutcomes :
         IF Len(versions) = 0 /\ outcome.rows
         THEN /\ versions' = <<StoredVersion(outcome)>>
              /\ created' = created \cup {Registered(StoredVersion(outcome))}
         ELSE UNCHANGED <<versions, created>>
    /\ agentPc' = "starting"
    /\ agentOp' = "load_versions"
    /\ status' = NoStatus
    /\ decided' = NoDecision
    /\ UNCHANGED <<state, agent_is_running, current_version, simulation_history,
                   sim_phase, initial_winrate, nextVersionId>>

\* start: the initial version, when there is no current one
EnsureInitialVersion ==
    /\ agentPc = "starting"
    /\ IF current_version = 0
       THEN LET v == _create_initial_version(<<"uuid", nextVersionId>>)
            IN  /\ versions' = Append(versions, v)
                /\ current_version' = Len(versions) + 1
                /\ created' = created \cup {Registered(v)}
                /\ nextVersionId' = nextVersionId + 1
       ELSE UNCHANGED <<versions, current_version, created, nextVersionId>>
    /\ agentPc' = "looping"
    /\ agentOp' = "ensure_initial_version"
    /\ status' = NoStatus
    /\ decided' = NoDecision
    /\ UNCHANGED <<state, agent_is_running, simulation_history, sim_phase,
                   initial_winrate>>

\* the while test of start finds is_running set: _run_agent_cycle and
\* _run_simulation up to the await of PaperTrader.run
BeginCycle ==
    /\ agentPc = "looping"
    /\ agent_is_running
    /\ Len(simulation_history) + 2 <= MaxSimulations
    /\ state' = "running_initial_simulation"
    /\ sim_phase' = "initial"
    /\ agentPc' = "simulating"
    /\ agentOp' = "begin_cycle"
    /\ status' = NoStatus
    /\ decided' = NoDecision
    /\ UNCHANGED <<agent_is_running, versions, current_version, simulation_history,
                   initial_winrate, nextVersionId, created>>

\* the while test of start finds is_running cleared: start returns
LoopExit ==
    /\ agentPc = "looping"
    /\ ~agent_is_running
    /\ agentPc' = "returned"
    /\ agentOp' = "loop_exit"
    /\ status' = NoStatus
    /\ decided' = NoDecision
    /\ UNCHANGED <<state, agent_is_running, versions, current_version,
                   simulation_history, sim_phase, initial_winrate, nextVersionId,
                   created>>

\* _optimize_and_retry up to the await of the advisor; the to_dict of a
\* configuration that is a plain dict raises, which ends the step
EnterOptimize ==
    /\ state' = "optimizing_parameters"
    /\ agentPc' = IF current_version # 0 /\ IsDict(versions[current_version].config)
                  THEN "sleeping" ELSE "optimizing"

\* _run_simulation after PaperTrader.run has returned with the given
\* outcome: the result is recorded and the current version takes its score
RecordSimulation(outcome) ==
    /\ simulation_history' =
           Append(simulation_history,
                  [ version_id |-> IF current_version = 0 THEN <<"none", 0>>
                                   ELSE versions[current_version].id,
                    winrate |-> outcome.winrate, score |-> ScoreOf(outcome),
                    total_pnl_percent |-> outcome.total_pnl_percent ])
    /\ versions' =
           IF current_version = 0 THEN versions
           ELSE [versions EXCEPT
                   ![current_version].score = ScoreOf(outcome),
                   ![current_version].winrate = outcome.winrate,
                   ![current_version].total_simulations = @ + 1]
    /\ agentPc' = "sim_recorded"
    /\ agentOp' = "simulation_done"
    /\ status' = NoStatus
    /\ decided' = NoDecision
    /\ UNCHANGED <<state, agent_is_running, current_version, sim_phase,
                   initial_winrate, nextVersionId, created>>

\* the simulation of the cycle returns, with any outcome a run can have
SimulationDoneWith(outcomes) ==
    /\ agentPc = "simulating"
    /\ \E outcome \in outcomes : RecordSimulation(outcome)

SimulationDone == SimulationDoneWith(SimOutcomes)

\* _run_simulation raises and returns None: the cycle of an initial simulation
\* stops the loop, the cycle of a short one goes on to optimise
SimulationFailed ==
    /\ agentPc = "simulating"
    /\ IF sim_phase = "initial"
       THEN /\ agentPc' = "returned"
            /\ agent_is_running' = FALSE
            /\ UNCHANGED state
       ELSE /\ EnterOptimize
            /\ UNCHANGED agent_is_running
    /\ agentOp' = "simulation_failed"
    /\ status' = NoStatus
    /\ decided' = NoDecision
    /\ UNCHANGED <<versions, current_version, simulation_history, sim_phase,
                   initial_winrate, nextVersionId, created>>

\* _run_agent_cycle after a simulation has returned its result
AfterSimulation ==
    /\ agentPc = "sim_recorded"
    /\ LET result == simulation_history[Len(simulation_history)]
       IN  IF sim_phase = "initial"
           THEN /\ initial_winrate' = result.winrate
                /\ state' = "evaluating"
                /\ agentPc' = "evaluating"
           ELSE /\ UNCHANGED initial_winrate
                /\ IF result.winrate >= initial_winrate
                   THEN agentPc' = "sleeping" /\ UNCHANGED state
                   ELSE EnterOptimize
    /\ agentOp' = "after_simulation"
    /\ status' = NoStatus
    /\ decided' = NoDecision
    /\ UNCHANGED <<agent_is_running, versions, current_version, simulation_history,
                   sim_phase, nextVersionId, created>>

\* _evaluate_score after the advisor has answered, and the branch of
\* _run_agent_cycle it selects, up to the next await
EvaluateWith(replies) ==
    /\ agentPc = "evaluating"
    /\ \E reply \in replies :
         LET decision == _evaluate_score(initial_winrate, reply)
         IN  /\ IF decision = "run_short_simulation"
                THEN /\ state' = "running_short_simulation"
                     /\ sim_phase' = "short"
                     /\ agentPc' = "simulating"
                ELSE IF decision = "search_history" /\ Len(versions) >= 2
                THEN /\ state' = "searching_history"
                     /\ agentPc' = "searching"
                     /\ UNCHANGED sim_phase
                ELSE /\ EnterOptimize
                     /\ UNCHANGED sim_phase
             /\ decided' = [made |-> TRUE, score |-> initial_winrate, reply |-> reply,
                            decision |-> decision]
    /\ agentOp' = "evaluate"
    /\ status' = NoStatus
    /\ UNCHANGED <<agent_is_running, versions, current_version, simulation_history,
                   initial_winrate, nextVersionId, created>>

Evaluate == EvaluateWith(EvaluateReplies)

\* _optimize_and_retry after the advisor has answered
OptimizeWith(replies) ==
    /\ agentPc = "optimizing"
    /\ \E reply \in replies :
         IF reply.adoptable
         THEN /\ Len(versions) < MaxVersions
              /\ LET base == IF current_version = 0 THEN GRAPH_SCALPING
                             ELSE versions[current_version].config
                     new_version ==
                         AgentVersion(<<"uuid", nextVersionId>>,
                                      [number |-> Len(versions) + 1,
                                       suffix |-> "brain_optimized"],
                                      _apply_suggestions(base, reply.suggestions))
                     adopted == Adopt(versions, current_version, new_version)
                 IN  /\ versions' = adopted.versions
                     /\ current_version' = adopted.current_version
                     /\ created' = created \cup {Registered(new_version)}
              /\ nextVersionId' = nextVersionId + 1
         ELSE UNCHANGED <<versions, current_version, created, nextVersionId>>
    /\ agentPc' = "sleeping"
    /\ agentOp' = "optimize"
    /\ status' = NoStatus
    /\ decided' = NoDecision
    /\ UNCHANGED <<state, agent_is_running, simulation_history, sim_phase,
                   initial_winrate>>

Optimize == OptimizeWith(OptimizeReplies)

\* _find_best_historical_version after the advisor has answered, and the
\* branch of _run_agent_cycle that follows
SearchHistoryWith(ids) ==
    /\ agentPc = "searching"
    /\ \E best_version_id \in ids :
         \E best \in _find_best_historical_version(versions, best_version_id) :
             IF best # 0
             THEN /\ current_version' = best
                  /\ agentPc' = "sleeping"
                  /\ UNCHANGED state
             ELSE /\ EnterOptimize
                  /\ UNCHANGED current_version
    /\ agentOp' = "search_history"
    /\ status' = NoStatus
    /\ decided' = NoDecision
    /\ UNCHANGED <<agent_is_running, versions, simulation_history, sim_phase,
                   initial_winrate, nextVersionId, created>>

SearchHistory == SearchHistoryWith(0..Len(versions))

\* the cycle has returned and the pause of the loop is over
SleepDone ==
    /\ agentPc = "sleeping"
    /\ agentPc' = "looping"
    /\ agentOp' = "sleep_done"
    /\ status' = NoStatus
    /\ decided' = NoDecision
    /\ UNCHANGED <<state, agent_is_running, versions, current_version,
                   simulation_history, sim_phase, initial_winrate, nextVersionId,
                   created>>

\* TradingAgent.stop, called by a request handler
Stop ==
    /\ agent_is_running' = FALSE
    /\ state' = "idle"
    /\ agentOp' = "stop"
    /\ status' = NoStatus
    /\ decided' = NoDecision
    /\ UNCHANGED <<agentPc, versions, current_version, simulation_history, sim_phase,
                   initial_winrate, nextVersionId, created>>

\* TradingAgent.get_status, called by a request handler
GetStatus ==
    /\ status' = get_status(state, agent_is_running, versions, current_version,
                            simulation_history)
    /\ agentOp' = "get_status"
    /\ decided' = NoDecision
    /\ UNCHANGED <<agentPc, state, agent_is_running, versions, current_version,
                   simulation_history, sim_phase, initial_winrate, nextVersionId,
                   created>>

NextAgent ==
    \/ AgentStart
    \/ LoadVersions
    \/ EnsureInitialVersion
    \/ BeginCycle
    \/ LoopExit
    \/ SimulationDone
    \/ SimulationFailed
    \/ AfterSimulation
    \/ Evaluate
    \/ Optimize
    \/ SearchHistory
    \/ SleepDone
    \/ Stop
    \/ GetStatus

\* ------------------------------------------------------------------------
\* The process: the supervisor task, the start and stop requests, and the
\* calls of TradingAgent.start they make (main_dev.py)
\* ------------------------------------------------------------------------
\* A call of TradingAgent.start is followed through the awaits that matter
\* here: "scheduled" (a task created for it that has not run yet), "cycle"
\* (inside _run_agent_cycle), "test" (at the pause before the while test) and
\* "done" (returned).

\* calls of create_agent in one run of the process
MaxAgents == 3

\* calls of TradingAgent.start in one run of the process
MaxLoops == 3

\* exceptions that reach _run_autonomous_agent in one run of the process
MaxFailures == 6

\* _run_autonomous_agent: max_retries, base_delay, the cap of the delay and
\* the pause after a call of start that returned
max_retries == 5
base_delay == 10
MaxDelay == 300
CyclePause == 5

VARIABLES
    agents,              \* the TradingAgent objects created so far: their is_running
    _active_agent,       \* trading_agent._active_agent: index in agents, 0 for None
    loops,               \* the calls of TradingAgent.start made so far
    supervisorPc,        \* where _run_autonomous_agent is suspended
    supervisorLoop,      \* the call of start the supervisor awaits, 0 for none
    retry_count,         \* _run_autonomous_agent: retry_count
    delay,               \* the sleep the supervisor started last, 0 for none
    streak,              \* attempts of the supervisor that failed since the last
                         \* attempt that did not
    failures,            \* exceptions that have reached the supervisor
    procOp               \* the operation that produced the current state

procVars == <<agents, _active_agent, loops, supervisorPc, supervisorLoop,
              retry_count, delay, streak, failures, procOp>>

ProcInit ==
    /\ agents = <<>>
    /\ _active_agent = 0
    /\ loops = <<>>
    /\ supervisorPc = "pick"
    /\ supervisorLoop = 0
    /\ retry_count = 0
    /\ delay = 0
    /\ streak = 0
    /\ failures = 0
    /\ procOp = "init"

\* the calls of start that are running cycles
RunningLoops == {l \in 1..Len(loops) : loops[l].pc \in {"cycle", "test"}}

\* _run_autonomous_agent: get_active_agent() or create_agent(), then
\* agent.start() up to its first await
SupervisorStart ==
    /\ supervisorPc = "pick"
    /\ Len(loops) < MaxLoops
    /\ IF _active_agent = 0
       THEN /\ Len(agents) < MaxAgents
            /\ agents' = Append(agents, [is_running |-> TRUE])
            /\ _active_agent' = Len(agents) + 1
       ELSE /\ agents' = [agents EXCEPT ![_active_agent].is_running = TRUE]
            /\ UNCHANGED _active_agent
    /\ loops' = Append(loops, [agent |-> _active_agent', pc |-> "cycle", failed |-> FALSE])
    /\ supervisorLoop' = Len(loops) + 1
    /\ supervisorPc' = "awaiting"
    /\ procOp' = "supervisor_start"
    /\ UNCHANGED <<retry_count, delay, streak, failures>>

\* _run_autonomous_agent: agent.start() has returned, with whatever status:
\* retry_count = 0 and the pause of 5 s
SupervisorResume ==
    /\ supervisorPc = "awaiting"
    /\ loops[supervisorLoop].pc = "done"
    /\ retry_count' = 0
    /\ delay' = CyclePause
    /\ streak' = IF loops[supervisorLoop].failed THEN streak + 1 ELSE 0
    /\ supervisorPc' = "pick"
    /\ supervisorLoop' = 0
    /\ procOp' = "supervisor_resume"
    /\ UNCHANGED <<agents, _active_agent, loops, failures>>

\* the delay of the except branch for a retry_count already incremented
RetryDelay(n) == Min(base_delay * (2 ^ n), MaxDelay)

\* _run_autonomous_agent: an exception leaves the try body before start is
\* awaited (get_active_agent or create_agent raises: _active_agent keeps its
\* value): the except branch and its sleep
SupervisorFail ==
    /\ supervisorPc = "pick"
    /\ failures < MaxFailures
    /\ delay' = RetryDelay(retry_count + 1)
    /\ retry_count' = IF retry_count + 1 >= max_retries THEN 0 ELSE retry_count + 1
    /\ streak' = streak + 1
    /\ failures' = failures + 1
    /\ procOp' = "supervisor_fail"
    /\ UNCHANGED <<agents, _active_agent, loops, supervisorPc, supervisorLoop>>

\* POST /api/agent/start: stop the active agent if it is running, create a
\* new agent, create a task for its start
start_trading_agent ==
    /\ Len(agents) < MaxAgents
    /\ Len(loops) < MaxLoops
    /\ LET stopped == IF _active_agent # 0 /\ agents[_active_agent].is_running
                      THEN [agents EXCEPT ![_active_agent].is_running = FALSE]
                      ELSE agents
       IN  agents' = Append(stopped, [is_running |-> FALSE])
    /\ _active_agent' = Len(agents) + 1
    /\ loops' = Append(loops, [agent |-> Len(agents) + 1, pc |-> "scheduled", failed |-> FALSE])
    /\ procOp' = "start_trading_agent"
    /\ UNCHANGED <<supervisorPc, supervisorLoop, retry_count, delay, streak, failures>>

\* POST /api/agent/stop
stop_trading_agent ==
    /\ _active_agent # 0
    /\ agents' = [agents EXCEPT ![_active_agent].is_running = FALSE]
    /\ procOp' = "stop_trading_agent"
    /\ UNCHANGED <<_active_agent, loops, supervisorPc, supervisorLoop,
                   retry_count, delay, streak, failures>>

\* the task created for start runs: start up to its first await
LoopBegin(l) ==
    /\ loops[l].pc = "scheduled"
    /\ agents' = [agents EXCEPT ![loops[l].agent].is_running = TRUE]
    /\ loops' = [loops EXCEPT ![l].pc = "cycle"]
    /\ procOp' = "loop_begin"
    /\ UNCHANGED <<_active_agent, supervisorPc, supervisorLoop,
                   retry_count, delay, streak, failures>>

\* _run_agent_cycle returns "continue": the pause before the while test
LoopCycle(l) ==
    /\ loops[l].pc = "cycle"
    /\ loops' = [loops EXCEPT ![l].pc = "test"]
    /\ procOp' = "loop_cycle"
    /\ UNCHANGED <<agents, _active_agent, supervisorPc, supervisorLoop,
                   retry_count, delay, streak, failures>>

\* _run_agent_cycle returns "stop" (a failed simulation): start returns
LoopFail(l) ==
    /\ loops[l].pc = "cycle"
    /\ loops' = [loops EXCEPT ![l].pc = "done", ![l].failed = TRUE]
    /\ agents' = [agents EXCEPT ![loops[l].agent].is_running = FALSE]
    /\ procOp' = "loop_fail"
    /\ UNCHANGED <<_active_agent, supervisorPc, supervisorLoop,
                   retry_count, delay, streak, failures>>

\* the while test of start: another cycle, or start returns
LoopTest(l) ==
    /\ loops[l].pc = "test"
    /\ IF agents[loops[l].agent].is_running
       THEN /\ loops' = [loops EXCEPT ![l].pc = "cycle"]
            /\ UNCHANGED agents
       ELSE /\ loops' = [loops EXCEPT ![l].pc = "done"]
            /\ agents' = [agents EXCEPT ![loops[l].agent].is_running = FALSE]
    /\ procOp' = "loop_test"
    /\ UNCHANGED <<_active_agent, supervisorPc, supervisorLoop,
                   retry_count, delay, streak, failures>>

NextProcess ==
    \/ SupervisorStart
    \/ SupervisorResume
    \/ SupervisorFail
    \/ start_trading_agent
    \/ stop_trading_agent
    \/ \E l \in 1..Len(loops) : LoopBegin(l)
    \/ \E l \in 1..Len(loops) : LoopCycle(l)
    \/ \E l \in 1..Len(loops) : LoopFail(l)
    \/ \E l \in 1..Len(loops) : LoopTest(l)

\* ------------------------------------------------------------------------
\* The advisor (AgentBrain)
\* ------------------------------------------------------------------------

\* calls of think in a run of the model
MaxThinks == 3

\* times the system clock is set back in a run of the model
MaxClockSteps == 1

\* ticks of a run whose price requests may be slow
MaxHoldTicks == 6

\* timeout of the price client, in seconds
RequestTimeout == 5

\* confidence is kept in hundredths
ConfidenceScale == 100

VARIABLES
    api_key,             \* "none", "placeholder" or "key"
    total_decisions,
    successful_decisions,
    response,            \* history: the LLMResponse of the last call of think,
                         \* with the node, the context and the way the call went
    thinks               \* history: calls of think so far

brainVars == <<api_key, total_decisions, successful_decisions, response, thinks>>

NodeTypes ==
    {"evaluate_market", "evaluate_simulation", "optimize_parameters",
     "search_history", "decide_next_step", "analyze_failure", "generate_strategy"}

\* the contexts think is called with
Contexts == {[winrate |-> 40], [winrate |-> 70]}

NoResponse == [node |-> "none"]

BrainInitWith(key) ==
    /\ api_key = key
    /\ total_decisions = 0
    /\ successful_decisions = 0
    /\ response = NoResponse
    /\ thinks = 0

\* the contents _fallback_response can build for a node: the fields that are
\* drawn at random take the ends of their ranges, "confidence" is absent
\* where the source has none
FallbackContents(node_type) ==
    CASE node_type = "evaluate_market" ->
            { [market_sentiment |-> m, trend_strength |-> t, recommended_action |-> "hold"] :
                  m \in {"bullish", "bearish", "neutral"}, t \in {30, 70} }
      [] node_type = "evaluate_simulation" ->
            { [overall_score |-> o, recommended_next_step |-> "optimize", confidence |-> 30] :
                  o \in {40, 80} }
      [] node_type = "optimize_parameters" ->
            { [optimized_parameters |-> x, confidence |-> 20] : x \in FallbackSuggestions }
      [] node_type = "decide_next_step" ->
            { [decision |-> d, confidence |-> 25] :
                  d \in {"run_initial_sim", "optimize", "search_history"} }
      [] node_type = "search_history" -> { [best_version_id |-> 0, confidence |-> 10] }
      [] node_type = "analyze_failure" -> { [should_retry |-> TRUE, confidence |-> 15] }
      [] node_type = "generate_strategy" ->
            { [strategy_name |-> "Fallback Strategy", confidence |-> 20] }

\* content.get("confidence", default)
ConfidenceOf(content, default) ==
    IF "confidence" \in DOMAIN content THEN content.confidence ELSE default

\* AgentBrain._fallback_response
_fallback_response(node_type) ==
    { [success |-> TRUE, content |-> c,
       confidence |-> (ConfidenceOf(c, 20) * ConfidenceScale) \div 100,
       fallback |-> TRUE] : c \in FallbackContents(node_type) }

\* how a call of the language model can go
CallOutcomes == {"network_error", "http_error", "unparsable", "answered"}

\* AgentBrain._call_gpt
_call_gpt(outcome) ==
    IF outcome = "answered"
    THEN { [success |-> TRUE, content |-> c,
            confidence |-> (ConfidenceOf(c, 50) * ConfidenceScale) \div 100,
            fallback |-> FALSE] :
               c \in {[reasoning |-> "reply"], [reasoning |-> "reply", confidence |-> 90]} }
    ELSE { [success |-> FALSE, content |-> [error |-> outcome], confidence |-> 0,
            fallback |-> FALSE] }

\* AgentBrain.think
think(node_type, context) ==
    /\ thinks < MaxThinks
    /\ thinks' = thinks + 1
    /\ IF api_key \in {"none", "placeholder"}
       THEN /\ \E r \in _fallback_response(node_type) :
                 response' = [node |-> node_type, context |-> context,
                              mode |-> "no_credential", success |-> r.success,
                              content |-> r.content, confidence |-> r.confidence,
                              fallback |-> r.fallback]
            /\ UNCHANGED <<total_decisions, successful_decisions>>
       ELSE \E outcome \in CallOutcomes : \E r \in _call_gpt(outcome) :
                 /\ response' = [node |-> node_type, context |-> context,
                                 mode |-> outcome, success |-> r.success,
                                 content |-> r.content, confidence |-> r.confidence,
                                 fallback |-> r.fallback]
                 /\ total_decisions' = total_decisions + 1
                 /\ successful_decisions' =
                        IF r.success THEN successful_decisions + 1
                        ELSE successful_decisions
    /\ UNCHANGED api_key

NextBrain == \E node_type \in NodeTypes, context \in Contexts : think(node_type, context)

\* ------------------------------------------------------------------------
\* Specifications
\* ------------------------------------------------------------------------

VARIABLES
    stop_tick            \* history: tick_count of the running simulation when stop
                         \* was first requested during it, NoTick before

NoTick == 0 - 1

\* the event loop, as far as the agent's events are concerned
VARIABLES
    readyTasks,          \* the tasks _set_state has created and the loop has not
                         \* run yet, oldest first
    issueSeq             \* history: the number of the next event the agent issues

loopVars == <<readyTasks, issueSeq>>

LoopInit ==
    /\ readyTasks = <<>>
    /\ issueSeq = 1

\* the price feed, as far as failures and invalid prices are concerned
VARIABLES
    bad_tick,            \* history: tick_count of the run when the price endpoint
                         \* first answered a price <= 0, NoTick before
    fetched,             \* history: what the price endpoint answered at the last tick
    clock_steps          \* history: times the system clock has been set back

feedVars == <<bad_tick, fetched, clock_steps>>

NoFetch == [ok |-> FALSE, best_bid |-> NoPrice]

FeedInit == bad_tick = NoTick /\ fetched = NoFetch /\ clock_steps = 0

\* a configuration on its way through a dict and back
VARIABLES
    cfg_in,              \* the GraphConfig that is serialised
    cfg_dict,            \* its to_dict(), NoDict before
    cfg_out,             \* the GraphConfig reloaded from cfg_dict
    cfgOp                \* the operation that produced the current state

configVars == <<cfg_in, cfg_dict, cfg_out, cfgOp>>

NoDict == [none |-> TRUE]

ConfigInitWith(c) ==
    /\ cfg_in = c
    /\ cfg_dict = NoDict
    /\ cfg_out = c
    /\ cfgOp = "init"

\* ------------------------------------------------------------------------
\* Event ring: listeners
\* ------------------------------------------------------------------------
\* A listener is a callable that returns or raises an Exception when it is
\* called with the event (a coroutine function is awaited, with the same two
\* outcomes).

\* listeners registered at one time
MaxListeners == 3

VARIABLES
    listeners,           \* AgentEventEmitter.listeners: for each, whether it raises
    notified,            \* the listeners the last emit called, in the order of the calls
    emitReturn,          \* the event the last emit returned to its caller
    lisOp                \* the operation that produced the current state

listenerVars == <<listeners, notified, emitReturn, lisOp>>

NoEvent == [id |-> 0, type |-> "none"]

ListenerInit ==
    /\ listeners = <<>>
    /\ notified = <<>>
    /\ emitReturn = NoEvent
    /\ lisOp = "init"

\* AgentEventEmitter.add_listener
add_listener ==
    /\ Len(listeners) < MaxListeners
    /\ \E raises \in BOOLEAN : listeners' = Append(listeners, [raises |-> raises])
    /\ lisOp' = "add_listener"
    /\ UNCHANGED <<notified, emitReturn>>

\* AgentEventEmitter.remove_listener of the listener at position i
remove_listener ==
    /\ \E i \in 1..Len(listeners) :
         listeners' = SubSeq(listeners, 1, i - 1) \o SubSeq(listeners, i + 1, Len(listeners))
    /\ lisOp' = "remove_listener"
    /\ UNCHANGED <<notified, emitReturn>>

\* a notification loop that the first Exception of a listener ends
RECURSIVE NotifyUntilFailure(_, _)
NotifyUntilFailure(ls, i) ==
    IF i > Len(ls) THEN <<>>
    ELSE IF ls[i].raises THEN <<i>>
    ELSE <<i>> \o NotifyUntilFailure(ls, i + 1)

\* the calls of the notification loop from listener i on: the try around
\* each call catches the Exception and the loop goes on
RECURSIVE NotifyFrom(_, _)
NotifyFrom(ls, i) ==
    IF i > Len(ls) THEN <<>> ELSE <<i>> \o NotifyFrom(ls, i + 1)

\* AgentEventEmitter.emit: the event is appended to the ring, every listener
\* is called in the order of registration, the event is returned
EmitToListeners ==
    /\ nextEventId <= MaxEmits
    /\ \E t \in EventTypes :
         LET event == [id |-> nextEventId, type |-> t]
         IN  /\ events' = DequeAppend(events, event, MaxHistory)
             /\ emitted' = Append(emitted, event)
             /\ emitReturn' = event
    /\ notified' = NotifyFrom(listeners, 1)
    /\ nextEventId' = nextEventId + 1
    /\ busOp' = "emit"
    /\ lisOp' = "emit"
    /\ UNCHANGED <<latestCount, latestResult, listeners>>

\* ------------------------------------------------------------------------
\* The capital ledger in Decimal arithmetic
\* ------------------------------------------------------------------------
\* initial_capital, prices, quantities, pnl and current_capital are Decimal
\* values: every sum, product and quotient is rounded half-even to the
\* precision of the context.  The context of the program is the default one
\* (28 significant digits); the ledger keeps Prec significant digits, with
\* amounts and prices chosen to that scale.  A Decimal is c * 10^e.

\* significant digits of the Decimal context in the ledger
Prec == 4

\* positions closed in one run of the ledger
MaxCloses == 3

Dec(c, e) == [c |-> c, e |-> e]

RECURSIVE Digits(_)
Digits(n) == IF Abs(n) < 10 THEN 1 ELSE 1 + Digits(Abs(n) \div 10)

Sign(n) == IF n < 0 THEN 0 - 1 ELSE 1

\* the coefficient c at exponent e rounded half-even to Prec digits; sticky
\* says that digits beyond those of c were not zero
RoundHalfEven(c, e, sticky) ==
    IF Digits(c) <= Prec THEN Dec(c, e)
    ELSE LET k == Digits(c) - Prec
             p == 10 ^ k
             q == Abs(c) \div p
             r == Abs(c) % p
             up == \/ 2 * r > p
                   \/ 2 * r = p /\ (sticky \/ q % 2 = 1)
         IN  Dec(Sign(c) * (IF up THEN q + 1 ELSE q), e + k)

\* Decimal.__add__
DecAdd(a, b) ==
    LET m == Min(a.e, b.e)
    IN  RoundHalfEven(a.c * (10 ^ (a.e - m)) + b.c * (10 ^ (b.e - m)), m, FALSE)

\* Decimal.__sub__
DecSub(a, b) == DecAdd(a, Dec(0 - b.c, b.e))

\* Decimal.__mul__
DecMul(a, b) == RoundHalfEven(a.c * b.c, a.e + b.e, FALSE)

\* the long division of Decimal.__truediv__: quotient digits until the
\* coefficient has Prec + 1 of them
RECURSIVE LongDiv(_, _, _, _)
LongDiv(q, r, d, e) ==
    IF r = 0 \/ Digits(q) > Prec THEN [q |-> q, r |-> r, e |-> e]
    ELSE LongDiv(q * 10 + (r * 10) \div d, (r * 10) % d, d, e - 1)

\* Decimal.__truediv__ for a >= 0 and b > 0
DecDiv(a, b) ==
    LET l == LongDiv(a.c \div b.c, a.c % b.c, b.c, a.e - b.e)
    IN  RoundHalfEven(l.q, l.e, l.r # 0)

\* a = b as Decimal compares them
DecEq(a, b) ==
    LET m == Min(a.e, b.e)
    IN  a.c * (10 ^ (a.e - m)) = b.c * (10 ^ (b.e - m))

VARIABLES
    led_capital,         \* stats.current_capital
    led_position,        \* current_position: entry_price and quantity, or none
    led_closed,          \* the pnl of the entries of closed_positions
    ledOp                \* the operation that produced the current state

ledgerVars == <<led_capital, led_position, led_closed, ledOp>>

NoLedgerPosition == [open |-> FALSE]

\* SimulationStats.current_capital of a new trader
DefaultCapital == Dec(1000, 0)

\* PaperTrader.__init__: Decimal(str(100.0))
LedgerInitialCapital == Dec(1000, 0 - 1)

\* Decimal(str(position_size_pct / 100)) of the scalping configuration
LedgerPositionSize == Dec(GRAPH_SCALPING.position_size_pct, 0 - 2)

\* prices the endpoint answers
LedgerPrices == {Dec(293, 0 - 2), Dec(300, 0 - 2), Dec(307, 0 - 2), Dec(700, 0 - 2)}

LedgerInit ==
    /\ led_capital = DefaultCapital
    /\ led_position = NoLedgerPosition
    /\ led_closed = <<>>
    /\ ledOp = "init"

\* run: current_capital = initial_capital
LedgerRun ==
    /\ ledOp = "init"
    /\ led_capital' = LedgerInitialCapital
    /\ ledOp' = "run"
    /\ UNCHANGED <<led_position, led_closed>>

\* _execute_signal on a BUY that takes a part of the capital out of
\* current_capital
LedgerOpenDeducts(price) ==
    /\ ledOp # "init"
    /\ ~led_position.open
    /\ Len(led_closed) < MaxCloses
    /\ LET position_value == DecMul(led_capital, LedgerPositionSize)
       IN  /\ led_position' = [open |-> TRUE, entry_price |-> price,
                               quantity |-> DecDiv(position_value, price)]
           /\ led_capital' = DecSub(led_capital, position_value)
    /\ ledOp' = "open"
    /\ UNCHANGED led_closed

\* _execute_signal on a BUY: position_value, quantity, the position
LedgerOpen(price) ==
    /\ ledOp # "init"
    /\ ~led_position.open
    /\ Len(led_closed) < MaxCloses
    /\ LET position_value == DecMul(led_capital, LedgerPositionSize)
       IN  led_position' = [open |-> TRUE, entry_price |-> price,
                            quantity |-> DecDiv(position_value, price)]
    /\ ledOp' = "open"
    /\ UNCHANGED <<led_capital, led_closed>>

\* _close_position: pnl, current_capital += pnl, closed_positions.append
LedgerClose(exit_price) ==
    /\ led_position.open
    /\ LET pnl == DecMul(DecSub(exit_price, led_position.entry_price),
                         led_position.quantity)
       IN  /\ led_capital' = DecAdd(led_capital, pnl)
           /\ led_closed' = Append(led_closed, pnl)
    /\ led_position' = NoLedgerPosition
    /\ ledOp' = "close"

vars == <<busVars, traderVars, agentVars, stop_tick, procVars, loopVars, brainVars, feedVars, configVars, ledgerVars, listenerVars>>

Init ==
    /\ BusInit /\ TraderInit /\ AgentInit /\ stop_tick = NoTick /\ ProcInit
    /\ LoopInit
    /\ FeedInit
    /\ ConfigInitWith(GRAPH_SCALPING)
    /\ LedgerInit
    /\ ListenerInit
    /\ BrainInitWith("none")

\* the paper trader
Next == NextTrader /\ UNCHANGED <<busVars, agentVars, stop_tick, procVars, loopVars, brainVars, feedVars, configVars, ledgerVars, listenerVars>>

Spec == Init /\ [][Next]_vars

\* the event ring
NextBusOnly == NextBus /\ UNCHANGED <<traderVars, agentVars, stop_tick, procVars, loopVars, brainVars, feedVars, configVars, ledgerVars, listenerVars>>

SpecBus == Init /\ [][NextBusOnly]_vars

\* the agent task and the request handlers that read and stop it; the paper
\* trader is the one the agent builds for its first simulation
InitAgent ==
    /\ BusInit
    /\ TraderInitWith([config |-> _adjust_config_for_score(GRAPH_SCALPING, 0),
                       tick_interval |-> 2])
    /\ AgentInit
    /\ stop_tick = NoTick
    /\ ProcInit
    /\ LoopInit
    /\ FeedInit
    /\ ConfigInitWith(GRAPH_SCALPING)
    /\ LedgerInit
    /\ ListenerInit
    /\ BrainInitWith("none")

NextAgentOnly == NextAgent /\ UNCHANGED <<busVars, traderVars, stop_tick, procVars, loopVars, brainVars, feedVars, configVars, ledgerVars, listenerVars>>

SpecAgent == InitAgent /\ [][NextAgentOnly]_vars

\* the process
NextProcessOnly == NextProcess /\ UNCHANGED <<busVars, traderVars, agentVars, stop_tick, loopVars, brainVars, feedVars, configVars, ledgerVars, listenerVars>>

SpecProcess == InitAgent /\ [][NextProcessOnly]_vars

\* one simulation of the agent: the agent task up to the await of
\* PaperTrader.run, the run of the trader it built, the return of the run, and
\* stop requests at any time

\* winrate and total_pnl_percent as _run_simulation takes them from the report
OutcomeOf(rep) ==
    [ winrate |-> IF rep.stats.trades_executed > 0
                  THEN (rep.stats.winning_trades * 100) \div rep.stats.trades_executed
                  ELSE 50,
      total_pnl_percent |-> DivTrunc(rep.stats.total_pnl_percent, 100) ]

\* the agent task before the simulation
SimAgentStep ==
    /\ \/ AgentStart
       \/ LoadVersions
       \/ EnsureInitialVersion
       \/ BeginCycle /\ pc = "new"
    /\ UNCHANGED <<busVars, traderVars, stop_tick, procVars, loopVars, brainVars, feedVars, configVars, ledgerVars, listenerVars>>

\* what the price endpoint answers during the simulation
SimTickers == {FailedFetch} \cup {[ok |-> TRUE, best_bid |-> b] : b \in {100, 101}}

\* PaperTrader.run, awaited by _run_simulation
SimTraderStep ==
    /\ agentPc = "simulating"
    /\ \/ RunStart
       \/ TickOn(SimTickers)
       \/ FinishOn("expired", SimTickers)
       \/ FinishOn("exception", SimTickers)
    /\ UNCHANGED <<busVars, agentVars, stop_tick, procVars, loopVars, brainVars, feedVars, configVars, ledgerVars, listenerVars>>

\* PaperTrader.run has returned its report to _run_simulation
SimReturn ==
    /\ agentPc = "simulating"
    /\ pc = "done"
    /\ RecordSimulation(OutcomeOf(report))
    /\ UNCHANGED <<busVars, traderVars, stop_tick, procVars, loopVars, brainVars, feedVars, configVars, ledgerVars, listenerVars>>

\* a stop request on the running agent (POST /api/agent/stop, or the stop
\* that POST /api/agent/start issues first)
SimStop ==
    /\ agent_is_running
    /\ Stop
    /\ stop_tick' = IF stop_tick = NoTick /\ agentPc = "simulating" /\ pc = "loop"
                     THEN tick_count ELSE stop_tick
    /\ UNCHANGED <<busVars, traderVars, procVars, loopVars, brainVars, feedVars, configVars, ledgerVars, listenerVars>>

NextSimulation == SimAgentStep \/ SimTraderStep \/ SimReturn \/ SimStop

SpecSimulation == InitAgent /\ [][NextSimulation]_vars

\* the events of the agent: every step of the agent task issues its events,
\* the ones of _set_state through a task of their own

\* what a step issues: the state changes _set_state was called with and the
\* events the agent awaits itself, in program order
StateChange(new_state) == [how |-> "task", type |-> "state_changed", new_state |-> new_state]

Awaited(type) == [how |-> "direct", type |-> type, new_state |-> "none"]

\* emit, for an event the agent issued as number seq
EmitIssued(bus, ev) ==
    LET event == [id |-> bus.nextEventId, type |-> ev.type,
                  new_state |-> ev.new_state, seq |-> ev.seq]
    IN  [bus EXCEPT !.events = DequeAppend(@, event, MaxHistory),
                    !.emitted = Append(@, event),
                    !.nextEventId = @ + 1]

\* one issued event: asyncio.create_task(emit_state_changed(...)) queues a
\* task, await emit_...(...) appends to the ring before the agent goes on
IssueOne(bus, op) ==
    LET ev == [type |-> op.type, new_state |-> op.new_state, seq |-> bus.issueSeq]
        counted == [bus EXCEPT !.issueSeq = @ + 1]
    IN  IF op.how = "task"
        THEN [counted EXCEPT !.readyTasks = Append(@, ev)]
        ELSE EmitIssued(counted, ev)

RECURSIVE IssueAll(_, _)
IssueAll(bus, ops) ==
    IF ops = <<>> THEN bus ELSE IssueAll(IssueOne(bus, Head(ops)), Tail(ops))

\* the events of the step that has just assigned the agent's next state
IssuedBy ==
    CASE agentOp' = "start" -> {<<StateChange("running_initial_simulation")>>}
      [] agentOp' = "load_versions" -> {<<Awaited("agent_started")>>}
      [] agentOp' = "ensure_initial_version" ->
            {IF current_version = 0 THEN <<Awaited("version_created")>> ELSE <<>>}
      [] agentOp' = "begin_cycle" ->
            {<<StateChange("running_initial_simulation"), Awaited("simulation_started")>>}
      [] agentOp' = "simulation_done" -> {<<Awaited("simulation_completed")>>}
      [] agentOp' = "simulation_failed" ->
            {IF sim_phase = "initial" THEN <<Awaited("error")>>
             ELSE <<Awaited("error"), StateChange("optimizing_parameters")>>}
      [] agentOp' = "after_simulation" ->
            {IF sim_phase = "initial" THEN <<StateChange("evaluating")>>
             ELSE IF agentPc' = "sleeping" THEN <<>>
             ELSE <<StateChange("optimizing_parameters")>>}
      [] agentOp' = "evaluate" ->
            IF agentPc' = "simulating"
            THEN {<<Awaited("brain_decision"), StateChange("running_short_simulation"),
                    Awaited("simulation_started")>>}
            ELSE IF agentPc' = "searching"
            THEN {<<Awaited("brain_decision"), StateChange("searching_history")>>}
            ELSE {<<Awaited("brain_decision"), StateChange("optimizing_parameters")>>}
                 \cup (IF Len(versions) < 2
                       THEN {<<Awaited("brain_decision"),
                               StateChange("searching_history"),
                               StateChange("optimizing_parameters")>>}
                       ELSE {})
      [] agentOp' = "optimize" ->
            {IF Len(versions') > Len(versions)
             THEN <<Awaited("brain_decision"), Awaited("version_created")>>
             ELSE <<Awaited("brain_decision")>>}
      [] agentOp' = "search_history" ->
            {IF agentPc' = "sleeping" THEN <<Awaited("version_created")>>
             ELSE <<StateChange("optimizing_parameters")>>}
      [] agentOp' = "stop" -> {<<StateChange("idle")>>}
      [] OTHER -> {<<>>}

\* a step of the agent task, or a stop request, with its events; the tasks
\* that are ready run before the agent task resumes from the simulation or
\* from the pause of its loop
IssuingStep ==
    /\ agentPc \in {"simulating", "sleeping"} => readyTasks = <<>>
    /\ \/ AgentStart
       \/ LoadVersions
       \/ EnsureInitialVersion
       \/ BeginCycle
       \/ LoopExit
       \/ SimulationDone
       \/ SimulationFailed
       \/ AfterSimulation
       \/ Evaluate
       \/ Optimize
       \/ SearchHistory
       \/ SleepDone
       \/ agent_is_running /\ Stop
    /\ \E ops \in IssuedBy :
         /\ issueSeq + Len(ops) <= MaxIssued + 1
         /\ LET bus == IssueAll([events |-> events, emitted |-> emitted,
                                 nextEventId |-> nextEventId,
                                 readyTasks |-> readyTasks, issueSeq |-> issueSeq],
                                ops)
            IN  /\ events' = bus.events
                /\ emitted' = bus.emitted
                /\ nextEventId' = bus.nextEventId
                /\ readyTasks' = bus.readyTasks
                /\ issueSeq' = bus.issueSeq
    /\ busOp' = "emit"
    /\ UNCHANGED <<latestCount, latestResult, traderVars, stop_tick, procVars, brainVars, feedVars, configVars, ledgerVars, listenerVars>>

\* the event loop runs the oldest ready task: emit_state_changed
RunTask ==
    /\ readyTasks # <<>>
    /\ LET bus == EmitIssued([events |-> events, emitted |-> emitted,
                              nextEventId |-> nextEventId], Head(readyTasks))
       IN  /\ events' = bus.events
           /\ emitted' = bus.emitted
           /\ nextEventId' = bus.nextEventId
    /\ readyTasks' = Tail(readyTasks)
    /\ busOp' = "emit"
    /\ UNCHANGED <<latestCount, latestResult, issueSeq, traderVars, agentVars,
                   stop_tick, procVars, brainVars, feedVars, configVars, ledgerVars, listenerVars>>

NextEvents == IssuingStep \/ RunTask

SpecEvents == InitAgent /\ [][NextEvents]_vars

\* the agent with an advisor that names no version when asked to search the
\* history (a failed call, or a reply without best_version_id): every
\* version the search returns comes from the ranking by score and market
\* distance
HistoryOutcomes ==
    { [winrate |-> 0, total_pnl_percent |-> 0 - 3],
      [winrate |-> 40, total_pnl_percent |-> 5],
      [winrate |-> 70, total_pnl_percent |-> 6] }

NextHistory ==
    /\ \/ AgentStart
       \/ LoadVersions
       \/ EnsureInitialVersion
       \/ BeginCycle
       \/ LoopExit
       \/ SimulationDoneWith(HistoryOutcomes)
       \/ SimulationFailed
       \/ AfterSimulation
       \/ Evaluate
       \/ Optimize
       \/ SearchHistoryWith({0})
       \/ SleepDone
       \/ Stop
       \/ GetStatus
    /\ UNCHANGED <<busVars, traderVars, stop_tick, procVars, loopVars, brainVars,
                   feedVars, configVars, ledgerVars, listenerVars>>

SpecHistory == InitAgent /\ [][NextHistory]_vars

\* the agent with an advisor that has no credential: every answer of the
\* advisor is the one _fallback_response builds
FallbackEvaluateReplies ==
    { [success |-> r.success, recommended |-> r.content.recommended_next_step] :
          r \in _fallback_response("evaluate_simulation") }

FallbackOptimizeReplies ==
    { [adoptable |-> r.success, suggestions |-> r.content.optimized_parameters] :
          r \in _fallback_response("optimize_parameters") }

\* the history search is left out: no fallback answer leads to it
NextNoCredential ==
    /\ \/ AgentStart
       \/ LoadVersions
       \/ EnsureInitialVersion
       \/ BeginCycle
       \/ LoopExit
       \/ SimulationDone
       \/ SimulationFailed
       \/ AfterSimulation
       \/ EvaluateWith(FallbackEvaluateReplies)
       \/ OptimizeWith(FallbackOptimizeReplies)
       \/ SleepDone
       \/ Stop
       \/ GetStatus
    /\ UNCHANGED <<busVars, traderVars, stop_tick, procVars, loopVars, brainVars, feedVars, configVars, ledgerVars, listenerVars>>

SpecNoCredential == InitAgent /\ [][NextNoCredential]_vars

\* one run of the paper trader on a feed that can fail and can answer a
\* price of 0
InvalidFeed == {FailedFetch} \cup {[ok |-> TRUE, best_bid |-> b] : b \in {0, 100, 101}}

FeedTick ==
    \E ticker \in InvalidFeed :
        /\ TickOn({ticker})
        /\ bad_tick' = IF bad_tick = NoTick /\ ticker.ok /\ ticker.best_bid <= 0
                       THEN tick_count ELSE bad_tick
        /\ fetched' = ticker
        /\ UNCHANGED clock_steps

NextFeed ==
    \/ /\ FeedTick
       /\ UNCHANGED <<busVars, agentVars, stop_tick, procVars, loopVars, brainVars, configVars, ledgerVars, listenerVars>>
    \/ /\ RunStart \/ FinishOn("expired", InvalidFeed) \/ FinishOn("exception", InvalidFeed)
       /\ UNCHANGED <<busVars, agentVars, stop_tick, procVars, loopVars, brainVars, feedVars, configVars, ledgerVars, listenerVars>>

SpecFeed == Init /\ [][NextFeed]_vars

\* one run of the paper trader under a system clock that can be set back
\* between two ticks: datetime.utcnow() reads the wall clock
ClockSetBack ==
    /\ pc = "loop"
    /\ clock_steps < MaxClockSteps
    /\ \E d \in {tick_interval, 2 * tick_interval} :
         /\ now - d >= 0
         /\ now' = now - d
    /\ clock_steps' = clock_steps + 1
    /\ traderOp' = "clock"
    /\ UNCHANGED <<pc, config, tick_interval, end_time, is_running, tick_count,
                   current_position, closed_positions, signals, stats, price_history,
                   last_trade_time, last_loss_time, report, lastClose>>
    /\ UNCHANGED <<busVars, agentVars, stop_tick, procVars, loopVars, brainVars,
                   bad_tick, fetched, configVars, ledgerVars, listenerVars>>

NextClock ==
    \/ ClockSetBack
    \/ /\ RunStart \/ TickOn(SimTickers) \/ FinishOn("expired", SimTickers)
          \/ FinishOn("exception", SimTickers)
       /\ UNCHANGED <<busVars, agentVars, stop_tick, procVars, loopVars, brainVars, feedVars, configVars, ledgerVars, listenerVars>>

SpecClock == Init /\ [][NextClock]_vars

\* one run of the scalping preset for HoldDuration seconds against a price
\* endpoint that answers at once or slowly: each of the three requests of
\* _get_public_price may take up to the client's timeout
HoldDuration == 60

SlowFetch == 3 * (RequestTimeout - 1)

InitHold ==
    /\ BusInit
    /\ TraderInitWith([config |-> GRAPH_SCALPING, tick_interval |-> 2])
    /\ AgentInit
    /\ stop_tick = NoTick
    /\ ProcInit
    /\ LoopInit
    /\ BrainInitWith("none")
    /\ FeedInit
    /\ ConfigInitWith(GRAPH_SCALPING)
    /\ LedgerInit
    /\ ListenerInit

HoldTick ==
    /\ tick_count < MaxHoldTicks
    /\ TickAfter(SimTickers, {0, SlowFetch})

NextHold ==
    /\ \/ RunStartFor(HoldDuration)
       \/ HoldTick
       \/ FinishOn("expired", SimTickers)
       \/ FinishOn("exception", SimTickers)
    /\ UNCHANGED <<busVars, agentVars, stop_tick, procVars, loopVars, brainVars,
                   feedVars, configVars, ledgerVars, listenerVars>>

SpecHold == InitHold /\ [][NextHold]_vars

\* serialising and reloading configurations: the presets, the configurations
\* the agent builds from suggestions, and their score adjustments
ConfigInputs ==
    LET built == {GRAPH_SCALPING, GRAPH_V1}
                 \cup {_apply_suggestions(b, x) :
                          b \in {GRAPH_SCALPING, GRAPH_V1},
                          x \in FallbackSuggestions \cup ModelSuggestions}
    IN  built \cup {_adjust_config_for_score(c, sc) : c \in built, sc \in {0, 60, 70, 80}}

InitConfig ==
    /\ BusInit
    /\ TraderInitWith([config |-> GRAPH_SCALPING, tick_interval |-> 2])
    /\ AgentInit
    /\ stop_tick = NoTick
    /\ ProcInit
    /\ LoopInit
    /\ BrainInitWith("none")
    /\ FeedInit
    /\ \E c \in ConfigInputs : ConfigInitWith(c)
    /\ LedgerInit
    /\ ListenerInit

Serialise ==
    /\ cfg_dict = NoDict
    /\ cfg_dict' = GraphConfigToDict(cfg_in)
    /\ cfgOp' = "to_dict"
    /\ UNCHANGED <<cfg_in, cfg_out>>

\* run_ab_test: GraphConfig(**params)
ReloadKeywords ==
    /\ cfg_dict # NoDict
    /\ cfg_out' = GraphConfigFromKeywords(cfg_dict)
    /\ cfgOp' = "reload_keywords"
    /\ UNCHANGED <<cfg_in, cfg_dict>>

\* _adjust_config_for_score: the dict-to-config path
ReloadDict ==
    /\ cfg_dict # NoDict
    /\ cfg_out' = GraphConfigFromDict(cfg_dict)
    /\ cfgOp' = "reload_dict"
    /\ UNCHANGED <<cfg_in, cfg_dict>>

NextConfig ==
    /\ Serialise \/ ReloadKeywords \/ ReloadDict
    /\ UNCHANGED <<busVars, traderVars, agentVars, stop_tick, procVars, loopVars,
                   brainVars, feedVars, ledgerVars, listenerVars>>

SpecConfig == InitConfig /\ [][NextConfig]_vars

NextLedger ==
    /\ \/ LedgerRun
       \/ \E price \in LedgerPrices : LedgerOpen(price)
       \/ \E price \in LedgerPrices : LedgerClose(price)
    /\ UNCHANGED <<busVars, traderVars, agentVars, stop_tick, procVars, loopVars,
                   brainVars, feedVars, configVars, listenerVars>>

SpecLedger == Init /\ [][NextLedger]_vars

NextListeners ==
    \/ /\ add_listener \/ remove_listener
       /\ UNCHANGED <<busVars, traderVars, agentVars, stop_tick, procVars, loopVars,
                      brainVars, feedVars, configVars, ledgerVars>>
    \/ /\ EmitToListeners
       /\ UNCHANGED <<traderVars, agentVars, stop_tick, procVars, loopVars,
                      brainVars, feedVars, configVars, ledgerVars>>

SpecListeners == Init /\ [][NextListeners]_vars

\* the advisor, with and without a credential
InitBrain ==
    /\ BusInit
    /\ TraderInitWith([config |-> GRAPH_SCALPING, tick_interval |-> 2])
    /\ AgentInit
    /\ stop_tick = NoTick
    /\ ProcInit
    /\ LoopInit
    /\ FeedInit
    /\ ConfigInitWith(GRAPH_SCALPING)
    /\ LedgerInit
    /\ ListenerInit
    /\ \E key \in {"none", "placeholder", "key"} : BrainInitWith(key)

NextBrainOnly ==
    NextBrain /\ UNCHANGED <<busVars, traderVars, agentVars, stop_tick, procVars, loopVars,
                           feedVars, configVars, ledgerVars, listenerVars>>

SpecBrain == InitBrain /\ [][NextBrainOnly]_vars

\* ------------------------------------------------------------------------
\* Properties of the paper trader (specification Spec)
\* ------------------------------------------------------------------------

LastOf(s) == s[Len(s)]

Wins == {i \in 1..Len(closed_positions) : closed_positions[i].pnl > 0}

Losses == {i \in 1..Len(closed_positions) : ~(closed_positions[i].pnl > 0)}

C3_PnlFormula ==
    \A i \in 1..Len(closed_positions) :
        LET p == closed_positions[i]
        IN  /\ p.pnl = (p.exit_price - p.entry_price) * p.quantity
            /\ p.pnl_percent = DivTrunc((p.exit_price - p.entry_price) * PctBase, p.entry_price)

\* a run closed one position at a profit and another one, for another reason,
\* at a loss
C3_Witness ==
    \E i, j \in 1..Len(closed_positions) :
        /\ closed_positions[i].pnl > 0
        /\ closed_positions[j].pnl < 0
        /\ closed_positions[i].exit_reason # closed_positions[j].exit_reason

\* C4: from the capital initialisation of run to the report, no step lowers
\* stats.peak_capital
C4_PeakMonotonic ==
    [][pc = "loop" => stats'.peak_capital >= stats.peak_capital]_vars

\* the peak has risen above the initial capital and the capital has since
\* fallen below it
C4_Witness ==
    /\ pc = "done"
    /\ stats.peak_capital > InitialCapital
    /\ stats.current_capital < stats.peak_capital

C6_ReportClosesAll ==
    [][pc' = "done" =>
         /\ ~HasPosition(current_position')
         /\ report'.made
         /\ report'.trades = closed_positions'
         /\ Len(report'.trades) = report'.stats.trades_executed
         /\ HasPosition(current_position) =>
              /\ Len(closed_positions') = Len(closed_positions) + 1
              /\ LastOf(closed_positions').id = current_position.id
              /\ LastOf(closed_positions').exit_reason = "simulation_end"]_vars

\* an exception ended the loop with the second position of the run open
C6_Witness ==
    /\ pc = "done"
    /\ traderOp = "exception"
    /\ Len(closed_positions) = 2
    /\ LastOf(closed_positions).exit_reason = "simulation_end"


\* ------------------------------------------------------------------------
\* Properties of the event ring (specification SpecBus)
\* ------------------------------------------------------------------------

\* C7: after any sequence of emit and clear calls the ring holds at most
\* max_history events, and they are the most recently emitted ones in emission
\* order: an emit into a full ring has evicted exactly the oldest stored event
C7_RingFifo ==
    /\ Len(events) <= MaxHistory
    /\ LET kept == Min(MaxHistory, Len(emitted))
       IN  events = SubSeq(emitted, Len(emitted) - kept + 1, Len(emitted))

\* two emits have overflowed the full ring
C7_Witness ==
    /\ busOp = "emit"
    /\ Len(emitted) = MaxHistory + 2
    /\ Len(events) = MaxHistory

\* C8: get_latest(n) with n >= 1 returns the min(n, stored size) most recently
\* emitted events, newest first; get_latest(1) returns the last event emitted
C8_LatestNewestFirst ==
    busOp = "get_latest" /\ latestCount >= 1 =>
        LET k == Min(latestCount, Len(events))
        IN  /\ Len(latestResult) = k
            /\ \A i \in 1..k : latestResult[i] = emitted[Len(emitted) - i + 1]

\* get_latest(2) on a ring that has overflowed
C8_Witness ==
    /\ busOp = "get_latest"
    /\ latestCount = 2
    /\ Len(emitted) > MaxHistory
    /\ Len(latestResult) = 2


\* ------------------------------------------------------------------------
\* Properties of the agent (specification SpecAgent)
\* ------------------------------------------------------------------------

\* the ranges the optimisation prompt documents for the four parameters
InDocumentedRange(c) ==
    /\ 25 <= c.rsi_oversold /\ c.rsi_oversold <= 45
    /\ 10 <= c.stop_loss_pct /\ c.stop_loss_pct <= 200
    /\ 5 <= c.position_size_pct /\ c.position_size_pct <= 25
    /\ 1 <= c.min_time_between_trades /\ c.min_time_between_trades <= 60

\* C9: every configuration the optimise step adopts has rsi_oversold in
\* [25, 45], stop_loss_pct in [0.1, 2.0], position_size_pct in [5, 25] and
\* min_time_between_trades in [1, 60]
C9_AdoptedInRange ==
    \A i \in 1..Len(versions) :
        versions[i].name.suffix = "brain_optimized" => InDocumentedRange(versions[i].config)

\* C10: the current_version a get_status call returns is one version as it
\* was created (its id, its name and its configuration), with that version's
\* score, and it is the version that is current when the call runs
C10_StatusOneVersion ==
    agentOp = "get_status" /\ status.has_version =>
        /\ current_version # 0
        /\ status.current_version.id = versions[current_version].id
        /\ status.current_version.score = versions[current_version].score
        /\ \E v \in created :
              /\ status.current_version.id = v.id
              /\ status.current_version.name = v.name
              /\ status.current_version.config =
                     (IF IsDict(v.config) THEN v.config ELSE GraphConfigToDict(v.config))

\* get_status runs right after the optimise step has adopted a new version,
\* while the agent task is in the pause of its loop
C10_Witness ==
    /\ agentOp = "get_status"
    /\ agentPc = "sleeping"
    /\ status.has_version
    /\ status.current_version.name.suffix = "brain_optimized"
    /\ status.versions_count >= 2

\* C11: once stop has left the agent idle with is_running cleared, the state
\* stays idle until start is called again
C11_StopIsFinal ==
    [][(state = "idle" /\ ~agent_is_running) => (state' = "idle" \/ agentOp' = "start")]_vars

\* C13: the loop of start is left only after a stop request has cleared
\* is_running; in particular not after a failed simulation
C13_LoopExitsOnlyOnStop ==
    [][(agentPc # "returned" /\ agentPc' = "returned") => ~agent_is_running]_vars

\* ------------------------------------------------------------------------
\* Properties of one simulation of the agent (specification SpecSimulation)
\* ------------------------------------------------------------------------

\* C12: a simulation that is running when stop is requested processes at most
\* the tick in flight after the request
C12_StopObserved ==
    stop_tick # NoTick => tick_count <= stop_tick + 1

\* ------------------------------------------------------------------------
\* Properties of the process (specification SpecProcess)
\* ------------------------------------------------------------------------

\* C14: at most one call of TradingAgent.start is running cycles at any time
C14_OneLoop == Cardinality(RunningLoops) <= 1

\* ------------------------------------------------------------------------
\* Properties of the agent's events (specification SpecEvents)
\* ------------------------------------------------------------------------

\* C15: the agent's events enter the bus in the order the agent issued them;
\* in particular the STATE_CHANGED of a transition to RUNNING_INITIAL comes
\* before the SIMULATION_STARTED of the simulation that follows it
C15_IssueOrder ==
    \A i, j \in 1..Len(emitted) : i < j => emitted[i].seq < emitted[j].seq

\* ------------------------------------------------------------------------
\* Properties of the advisor (specification SpecBrain)
\* ------------------------------------------------------------------------

FailureModes == {"no_credential", "network_error", "http_error", "unparsable"}

\* C16: in every failure mode of the advisor (no credential, network or HTTP
\* error, reply without a JSON object) and for every node, think returns a
\* response with success true and confidence at most 0.3
C16_FailureGivesFallback ==
    (response # NoResponse /\ response.mode \in FailureModes)
        => (response.success /\ response.confidence * 10 <= 3 * ConfidenceScale)

\* C17: two consecutive fallback answers of think for the same node and the
\* same context have the same content
C17_FallbackDeterministic ==
    [][(/\ response # NoResponse
        /\ response.fallback
        /\ response'.fallback
        /\ response'.node = response.node
        /\ response'.context = response.context)
           => response'.content = response.content]_vars

\* ------------------------------------------------------------------------
\* Properties of the signals of the paper trader (specification Spec)
\* ------------------------------------------------------------------------

\* every tick so far has delivered the same positive price
ConstantStream ==
    /\ tick_count > 0
    /\ Len(price_history) = tick_count
    /\ \A i \in 1..Len(price_history) :
           price_history[i].price = price_history[1].price /\ price_history[i].price > 0

\* C18: on a stream of ticks that all carry the same price, a trader with the
\* scalping defaults opens no position: trades_executed stays 0
C18_FlatMarketNoTrade ==
    (config = GRAPH_SCALPING /\ ConstantStream)
        => (stats.trades_executed = 0 /\ current_position = NoPosition)

\* the step is a tick that has processed a price
ProcessedTick == traderOp' = "tick" /\ price_history' # price_history

\* C19: a processed tick whose price is at or below the stop_loss of the open
\* position closes the position in that tick with exit_reason stop_loss
C19_StopLossCloses ==
    [][(/\ ProcessedTick
        /\ HasPosition(current_position)
        /\ LastOf(price_history').price * PctBase <= current_position.stop_loss)
           => (/\ current_position' = NoPosition
               /\ Len(closed_positions') = Len(closed_positions) + 1
               /\ LastOf(closed_positions').exit_reason = "stop_loss")]_vars

\* C20: once a position has closed with pnl < 0 at time t, last_loss_time is
\* set, and a tick whose timestamp is earlier than t + cooldown_after_loss
\* emits no BUY signal and opens no position
C20_CooldownAfterLoss ==
    [][\A i \in 1..Len(closed_positions) :
          closed_positions[i].pnl < 0 =>
             /\ last_loss_time # NoTime
             /\ last_loss_time >= closed_positions[i].exit_time
             /\ (ProcessedTick
                 /\ now < closed_positions[i].exit_time + config.cooldown_after_loss)
                    => (/\ stats'.buy_signals = stats.buy_signals
                        /\ stats'.trades_executed = stats.trades_executed
                        /\ current_position' = current_position)]_vars

\* a tick has been processed after a losing close and before the end of its
\* cooldown
C20_Witness ==
    /\ traderOp = "tick"
    /\ \E i \in 1..Len(closed_positions) :
         /\ closed_positions[i].pnl < 0
         /\ LastOf(price_history).timestamp > closed_positions[i].exit_time
         /\ LastOf(price_history).timestamp
                < closed_positions[i].exit_time + config.cooldown_after_loss

\* ------------------------------------------------------------------------
\* Properties of the agent without advisor credential (SpecNoCredential)
\* ------------------------------------------------------------------------

\* C21: without advisor credential, the evaluation of an initial simulation
\* whose winrate is below the medium threshold decides to search the history:
\* the agent enters SEARCHING_HISTORY, and goes on to the optimise step only
\* when there is no historical version to choose from
C21_LowScoreSearchesHistory ==
    [][(agentOp' = "evaluate" /\ initial_winrate < MediumScoreThreshold)
          => \/ state' = "searching_history"
             \/ Len(versions) < 2 /\ state' = "optimizing_parameters"]_vars

\* ------------------------------------------------------------------------
\* Properties of the run on an invalid price (specification SpecFeed)
\* ------------------------------------------------------------------------

\* C22: a tick that delivers a price <= 0 aborts the simulation: the run
\* processes no tick after it
C22_InvalidPriceAborts ==
    bad_tick # NoTick => tick_count <= bad_tick + 1

\* C23: a tick whose price fetch fails changes nothing: price_history, the
\* stats with the price extrema, signals, the positions, last_trade_time and
\* last_loss_time are as before the tick
C23_FailedFetchSkipped ==
    [][(traderOp' = "tick" /\ tick_count' = tick_count + 1 /\ fetched' = FailedFetch)
          => UNCHANGED <<price_history, stats, signals, current_position,
                         closed_positions, last_trade_time, last_loss_time>>]_vars

\* the fetch of the last tick failed while a position was open
C23_Witness ==
    /\ traderOp = "tick"
    /\ fetched = FailedFetch
    /\ HasPosition(current_position)
    /\ Len(price_history) >= 2

\* ------------------------------------------------------------------------
\* Properties of the run under a clock set back (specification SpecClock)
\* ------------------------------------------------------------------------

\* C24: a tick whose timestamp is not strictly greater than the timestamp of
\* the last observed tick is ignored: nothing is appended to price_history,
\* and stats, signals and positions are as before the tick
C24_StaleTickIgnored ==
    [][(/\ traderOp' = "tick"
        /\ price_history # <<>>
        /\ now <= LastOf(price_history).timestamp)
          => UNCHANGED <<price_history, stats, signals, current_position,
                         closed_positions>>]_vars

\* ------------------------------------------------------------------------
\* Properties of the configuration round trip (specification SpecConfig)
\* ------------------------------------------------------------------------

\* C25: a GraphConfig serialised with to_dict and reloaded into a GraphConfig
\* is equal to the original on every parameter field
C25_RoundTrip ==
    cfgOp \in {"reload_keywords", "reload_dict"} => cfg_out = cfg_in

\* ------------------------------------------------------------------------
\* Properties of the agent's versions
\* ------------------------------------------------------------------------

\* C26: when the history search selects the version that is already current,
\* current_version and versions are unchanged and no version event is added
\* to the bus
C26_AdoptCurrentNoOp ==
    [][(/\ agentOp' = "search_history"
        /\ agentPc' = "sleeping"
        /\ current_version' = current_version)
       => /\ versions' = versions
          /\ \A i \in (Len(emitted) + 1)..Len(emitted') :
                emitted'[i].type # "version_created"]_vars

\* C27: in every state of the agent at most one version has is_active set
C27_OneActiveVersion ==
    Cardinality({i \in 1..Len(versions) : versions[i].is_active}) <= 1

\* the configuration _run_simulation hands to the PaperTrader it creates
SimulationConfig(vs, cur) ==
    IF cur = 0 THEN GRAPH_SCALPING
    ELSE _adjust_config_for_score(vs[cur].config, vs[cur].score)

\* the trader's configuration carries every value the version's configuration
\* holds, position_size_pct apart
DrivenBy(trader_config, version_config) ==
    \A f \in (DOMAIN trader_config \cap DOMAIN version_config) \ {"position_size_pct"} :
        trader_config[f] = version_config[f]

\* C28: every simulation the agent starts runs with the parameters of
\* current_version.config, the score-based position_size_pct apart
C28_SimulationUsesCurrentConfig ==
    [][(agentPc' = "simulating" /\ agentPc # "simulating" /\ current_version' # 0)
       => DrivenBy(SimulationConfig(versions', current_version'),
                   versions'[current_version'].config)]_vars

\* ------------------------------------------------------------------------
\* Properties of the open position (specification Spec)
\* ------------------------------------------------------------------------

\* the prices the trader has processed since the position was opened
PricesSinceOpen(history, pos) ==
    {history[i].price : i \in {j \in 1..Len(history) : history[j].timestamp >= pos.entry_time}}

\* the position is open before and after the processed tick
StaysOpen ==
    /\ ProcessedTick
    /\ HasPosition(current_position)
    /\ HasPosition(current_position')
    /\ current_position'.id = current_position.id

\* C29: after every processed tick during which the position stays open,
\* stop_loss is the larger of its value before the tick and
\* price * (1 - trailing_stop_pct/100), and highest_price is the largest of
\* entry_price and the prices seen since the position was opened
C29_TrailingStop ==
    [][StaysOpen =>
         LET price == LastOf(price_history').price
             pos == current_position'
         IN  /\ pos.stop_loss = Max(current_position.stop_loss,
                                    price * (PctBase - config.trailing_stop_pct))
             /\ \A seen \in PricesSinceOpen(price_history', pos) \cup {pos.entry_price} :
                   pos.highest_price >= seen
             /\ pos.highest_price \in
                   PricesSinceOpen(price_history', pos) \cup {pos.entry_price}]_vars

C31_SearchHistoryDecision ==
    (/\ decided.made
     /\ \/ decided.reply.success /\ decided.reply.recommended = "search_history"
        \/ decided.score < MediumScoreThreshold)
        => decided.decision = "search_history"

\* the events of this type the step has added to the bus
AddedEvents(type) ==
    {i \in (Len(emitted) + 1)..Len(emitted') : emitted'[i].type = type}

\* C32: every execution of the optimise step appends exactly one version to
\* versions, adopts it as current_version and emits one version_created
\* event, whatever the advisor returned
C32_OptimizeCreatesVersion ==
    [][agentOp' = "optimize"
       => /\ Len(versions') = Len(versions) + 1
          /\ current_version' = Len(versions')
          /\ Cardinality(AddedEvents("version_created")) = 1]_vars

\* the parameters an "optimized_parameters" object carries
SuggestedKeys(suggestions) == {f \in DOMAIN suggestions : suggestions[f] # Absent}

\* the configuration is the base with the suggested parameters laid over it
IsOverlay(new_config, base, suggestions) ==
    \A f \in DOMAIN new_config \ SuggestedKeys(suggestions) : new_config[f] = base[f]

\* C33: the configuration of a version created by the optimise step has, on
\* every parameter the advisor's reply does not contain, the value of the
\* configuration that was current before the step
C33_OptimizedIsOverlay ==
    [][(/\ agentOp' = "optimize"
        /\ Len(versions') = Len(versions) + 1
        /\ current_version # 0
        /\ ~IsDict(versions[current_version].config))
       => LET base == versions[current_version].config
              new_config == versions'[Len(versions')].config
          IN  \E x \in FallbackSuggestions \cup ModelSuggestions :
                  /\ new_config = _apply_suggestions(base, x)
                  /\ IsOverlay(new_config, base, x)]_vars

\* C34: the ranked history search never returns the version that is
\* currently adopted and never returns a version whose score is below the
\* medium threshold
C34_SearchSkipsCurrent ==
    [][(agentOp' = "search_history" /\ agentPc' = "sleeping")
       => /\ current_version' # current_version
          /\ versions[current_version'].score >= MediumScoreThreshold]_vars


\* C35: when a finished simulation executed zero trades, the candidate v2
\* parameters of its report have rsi_oversold = min(old rsi_oversold + 5, 40)
\* and price_change_threshold = old price_change_threshold * 0.7
C35_NoTradesLoosens ==
    (report.made /\ report.stats.trades_executed = 0)
        => /\ report.recommendations.v2_params.rsi_oversold
                  = Min(config.rsi_oversold + 5, 40) * RecScale
           /\ report.recommendations.v2_params.price_change_threshold
                  = config.price_change_threshold * 7

\* a simulation has finished without a trade and its report carries the
\* loosened parameters
C35_Witness ==
    /\ pc = "done" /\ report.made /\ report.stats.trades_executed = 0
    /\ tick_count > 0
    /\ report.recommendations.v2_params.price_change_threshold
           = config.price_change_threshold * 7

\* win_rate of the report below 0.4 (0 when there are no trades)
LowWinRate(st) ==
    IF st.trades_executed > 0 THEN st.winning_trades * 10 < 4 * st.trades_executed
    ELSE TRUE

Tightened ==
    /\ report.recommendations.v2_params.rsi_oversold
           = Max(config.rsi_oversold - 5, 20) * RecScale
    /\ report.recommendations.v2_params.price_change_threshold
           = config.price_change_threshold * 13

\* C36 as stated: whenever the win_rate of the report (winners / trades, or 0
\* when there are no trades) is below 0.4, the candidate v2 parameters have
\* rsi_oversold = max(old - 5, 20) and price_change_threshold = old * 1.3
C36_LowWinRateTightens ==
    (report.made /\ LowWinRate(report.stats)) => Tightened

\* C36, amended: whenever at least one trade was executed and the win_rate
\* of the report is below 0.4, the candidate v2 parameters have
\* rsi_oversold = max(old - 5, 20) and price_change_threshold = old * 1.3
C36_LowWinRateWithTradesTightens ==
    (report.made /\ report.stats.trades_executed > 0 /\ LowWinRate(report.stats))
        => Tightened

\* a simulation has finished with trades, less than 40% of them winners
C36_Witness ==
    /\ pc = "done" /\ report.made /\ report.stats.trades_executed > 0
    /\ LowWinRate(report.stats) /\ Tightened


\* C37: the wait before the retry that follows the n-th consecutive failure
\* is 10 * 2^n seconds capped at 300 (n counted from the last reset), it
\* never exceeds 300, and the counter is 0 after every clean agent run and
\* after the fifth consecutive failure
C37_RetryBackoff ==
    [][(procOp' \in {"supervisor_fail", "supervisor_resume"})
       => /\ delay' <= MaxDelay
          /\ streak' = 0 => retry_count' = 0
          /\ streak' > 0 =>
               LET n == ((streak' - 1) % max_retries) + 1
               IN  /\ delay' = RetryDelay(n)
                   /\ retry_count' = n % max_retries]_vars


\* initial_capital + sum(pnl of closed_positions) as Decimal computes it: the
\* sum from 0, entry by entry, then the addition
RECURSIVE DecSum(_)
DecSum(pnls) ==
    IF pnls = <<>> THEN Dec(0, 0)
    ELSE DecAdd(DecSum(SubSeq(pnls, 1, Len(pnls) - 1)), pnls[Len(pnls)])

RECURSIVE Accumulated(_)
Accumulated(pnls) ==
    IF pnls = <<>> THEN LedgerInitialCapital
    ELSE DecAdd(Accumulated(SubSeq(pnls, 1, Len(pnls) - 1)), pnls[Len(pnls)])

\* the exponent of the last digit kept of a Decimal of the size of x
UlpExp(x) == Digits(x.c) + x.e - Prec

\* the least exponent among current_capital and the pnl of the closed positions
FineExp(capital, pnls) ==
    Min(Min(capital.e, UlpExp(LedgerInitialCapital)),
        IF pnls = <<>> THEN 0
        ELSE CHOOSE e \in {pnls[i].e : i \in 1..Len(pnls)} :
                 \A i \in 1..Len(pnls) : e <= pnls[i].e)

\* x in units of 10^m, for m <= x.e
Units(x, m) == x.c * (10 ^ (x.e - m))

RECURSIVE ExactSum(_, _)
ExactSum(pnls, m) ==
    IF pnls = <<>> THEN 0
    ELSE Units(pnls[Len(pnls)], m) + ExactSum(SubSeq(pnls, 1, Len(pnls) - 1), m)

\* current_capital is within half a unit in its last place per closed
\* position of the exact initial_capital + sum of pnl
WithinRounding(capital, pnls) ==
    LET m == FineExp(capital, pnls)
        exact == Units(LedgerInitialCapital, m) + ExactSum(pnls, m)
    IN  2 * Abs(Units(capital, m) - exact)
            <= Len(pnls) * (10 ^ (UlpExp(LedgerInitialCapital) - m))

C39_LatestAtMostCount ==
    busOp = "get_latest" => Len(latestResult) <= latestCount


\* C40: an exception raised by one listener during emit is isolated: the event
\* is still stored in the ring, every listener registered after the failing
\* one is still notified, and emit still returns the event to its caller
C40_ListenerFailureIsolated ==
    [][(lisOp' = "emit" /\ \E i \in 1..Len(listeners) : listeners[i].raises)
       => /\ emitReturn'.id = nextEventId
          /\ events' # <<>> /\ events'[Len(events')] = emitReturn'
          /\ \A i \in 1..Len(listeners) :
               listeners[i].raises
                   => \A j \in (i + 1)..Len(listeners) :
                          \E k \in 1..Len(notified') : notified'[k] = j]_vars

\* an emit with a failing listener followed by another listener, which was
\* notified, and the event returned is the newest of the ring
C40_Witness ==
    /\ lisOp = "emit"
    /\ \E i \in 1..Len(listeners) :
         /\ listeners[i].raises
         /\ i < Len(listeners)
         /\ \E k \in 1..Len(notified) : notified[k] = i + 1
    /\ events # <<>> /\ events[Len(events)] = emitReturn

====
